---------------------------- MODULE Spec2Model ----------------------------
(***************************************************************************)
(* lfest: a simulated leveraged-futures exchange.                          *)
(*                                                                         *)
(* Three parts of the repository are modelled:                             *)
(*   - order_margin (src/src/limit_order_margin.rs), a pure function,      *)
(*     exercised by the specification SpecOM;                              *)
(*   - Validator (src/src/validator.rs) driving an Account, exercised by   *)
(*     the specifications SpecAcc and SpecS4;                              *)
(*   - Exchange (src/src/exchange.rs), exercised by the specification      *)
(*     Spec.                                                               *)
(* Monetary quantities are exact rationals <<numerator, denominator>>.     *)
(***************************************************************************)
EXTENDS Integers, Sequences, FiniteSets, TLC

VARIABLES
    om,         \* SpecOM: the inputs and results of order_margin
    account,    \* the Account: position, margin, resting limit orders
    validator,  \* the Validator: fees, bid/ask snapshot, order cap
    engine,     \* the engine driving account and validator
    ret,        \* what the last entry-point call was and what it returned
    exchange,   \* Spec: the Exchange of src/src/exchange.rs
    exret       \* Spec: the last call on the Exchange and what it returned

omVars == <<om>>
accVars == <<account, validator, engine, ret>>
exVars == <<exchange, exret>>
vars == <<om, account, validator, engine, ret, exchange, exret>>

----------------------------------------------------------------------------
(* Decimal arithmetic: normalised fractions <<n, d>> with d > 0.            *)

Abs(x) == IF x < 0 THEN -x ELSE x

RECURSIVE Gcd(_, _)
Gcd(a, b) == IF b = 0 THEN a ELSE Gcd(b, a % b)

Norm(n, d) ==
    LET s == IF d < 0 THEN -1 ELSE 1
        g == Gcd(Abs(n), Abs(d))
    IN  <<(s * n) \div g, (s * d) \div g>>

R(i) == <<i, 1>>
Frac(n, d) == Norm(n, d)
Zero == R(0)
One == R(1)

Add(a, b) == Norm(a[1] * b[2] + b[1] * a[2], a[2] * b[2])
Neg(a) == <<-a[1], a[2]>>
Sub(a, b) == Add(a, Neg(b))
Mul(a, b) == Norm(a[1] * b[1], a[2] * b[2])
Div(a, b) == Norm(a[1] * b[2], a[2] * b[1])
Lt(a, b) == a[1] * b[2] < b[1] * a[2]
Le(a, b) == a[1] * b[2] <= b[1] * a[2]
Gt(a, b) == Lt(b, a)
Ge(a, b) == Le(b, a)
IsZero(a) == a[1] = 0
RAbs(a) == <<Abs(a[1]), a[2]>>
RMin(a, b) == IF Lt(b, a) THEN b ELSE a
RMax(a, b) == IF Gt(b, a) THEN b ELSE a
\* f64 -> i64 cast of a non-negative value: truncation.
Trunc(a) == a[1] \div a[2]
\* f64::round of a non-negative value: half away from zero.
Round(a) == (2 * a[1] + a[2]) \div (2 * a[2])

Sides == {"Buy", "Sell"}
FuturesTypes == {"Linear", "Inverse"}

----------------------------------------------------------------------------
(* order_margin, src/src/limit_order_margin.rs                              *)

\* The accumulation loop over the orders: size, price weight and maker fees
\* of the orders of one side.
RECURSIVE SideTotals(_, _, _, _)
SideTotals(orders, side, futures_type, fee_maker) ==
    IF orders = <<>>
    THEN [size |-> Zero, price_weight |-> Zero, fees |-> Zero]
    ELSE LET o == Head(orders)
             rest == SideTotals(Tail(orders), side, futures_type, fee_maker)
             price == R(o.limit_price)
             price_mult == IF futures_type = "Linear" THEN price ELSE Div(One, price)
             fee == Mul(Mul(R(o.quantity), price_mult), fee_maker)
         IN  IF o.side = side
             THEN [size |-> Add(rest.size, R(o.quantity)),
                   price_weight |-> Add(rest.price_weight, Mul(price, R(o.quantity))),
                   fees |-> Add(rest.fees, fee)]
             ELSE rest

\* A plausible slip: a tie between the two sides goes to the sells.
order_margin_tie_to_sells(orders, pos_size, futures_type, leverage, fee_maker) ==
    LET b == SideTotals(orders, "Buy", futures_type, fee_maker)
        s == SideTotals(orders, "Sell", futures_type, fee_maker)
        bsd == Sub(b.size, RAbs(RMin(R(pos_size), Zero)))
        ssd == Sub(s.size, RMax(R(pos_size), Zero))
    IN  IF (IsZero(b.size) /\ IsZero(s.size)) \/ (IsZero(bsd) /\ IsZero(ssd))
        THEN Zero
        ELSE IF Ge(ssd, bsd)
        THEN IF ~Gt(ssd, Zero)
             THEN Zero
             ELSE LET wp == Div(s.price_weight, s.size)
                      price_mult == IF futures_type = "Linear" THEN wp ELSE Div(One, wp)
                  IN  Add(Div(Mul(ssd, price_mult), R(leverage)), s.fees)
        ELSE IF IsZero(bsd)
             THEN Zero
             ELSE LET wp == Div(b.price_weight, b.size)
                      price_mult == IF futures_type = "Linear" THEN wp ELSE Div(One, wp)
                  IN  Add(Div(Mul(bsd, price_mult), R(leverage)), b.fees)

\* A plausible slip: the maker fees of both sides are reserved.
order_margin_fees_of_both_sides(orders, pos_size, futures_type, leverage, fee_maker) ==
    LET b == SideTotals(orders, "Buy", futures_type, fee_maker)
        s == SideTotals(orders, "Sell", futures_type, fee_maker)
        bsd == Sub(b.size, RAbs(RMin(R(pos_size), Zero)))
        ssd == Sub(s.size, RMax(R(pos_size), Zero))
    IN  IF (IsZero(b.size) /\ IsZero(s.size)) \/ (IsZero(bsd) /\ IsZero(ssd))
        THEN Zero
        ELSE IF Gt(ssd, bsd)
        THEN IF IsZero(ssd)
             THEN Zero
             ELSE LET wp == Div(s.price_weight, s.size)
                      price_mult == IF futures_type = "Linear" THEN wp ELSE Div(One, wp)
                  IN  Add(Div(Mul(ssd, price_mult), R(leverage)), Add(s.fees, b.fees))
        ELSE IF IsZero(bsd)
             THEN Zero
             ELSE LET wp == Div(b.price_weight, b.size)
                      price_mult == IF futures_type = "Linear" THEN wp ELSE Div(One, wp)
                  IN  Add(Div(Mul(bsd, price_mult), R(leverage)), Add(s.fees, b.fees))

\* A plausible slip: the position is not netted against the orders.
order_margin_ignoring_position(orders, pos_size, futures_type, leverage, fee_maker) ==
    LET b == SideTotals(orders, "Buy", futures_type, fee_maker)
        s == SideTotals(orders, "Sell", futures_type, fee_maker)
        bsd == b.size
        ssd == s.size
    IN  IF (IsZero(b.size) /\ IsZero(s.size)) \/ (IsZero(bsd) /\ IsZero(ssd))
        THEN Zero
        ELSE IF Gt(ssd, bsd)
        THEN LET wp == Div(s.price_weight, s.size)
                 price_mult == IF futures_type = "Linear" THEN wp ELSE Div(One, wp)
             IN  Add(Div(Mul(ssd, price_mult), R(leverage)), s.fees)
        ELSE LET wp == Div(b.price_weight, b.size)
                 price_mult == IF futures_type = "Linear" THEN wp ELSE Div(One, wp)
             IN  Add(Div(Mul(bsd, price_mult), R(leverage)), b.fees)

\* A plausible slip: the notional is not divided by the leverage.
order_margin_without_leverage(orders, pos_size, futures_type, leverage, fee_maker) ==
    LET b == SideTotals(orders, "Buy", futures_type, fee_maker)
        s == SideTotals(orders, "Sell", futures_type, fee_maker)
        bsd == Sub(b.size, RAbs(RMin(R(pos_size), Zero)))
        ssd == Sub(s.size, RMax(R(pos_size), Zero))
    IN  IF (IsZero(b.size) /\ IsZero(s.size)) \/ (IsZero(bsd) /\ IsZero(ssd))
        THEN Zero
        ELSE IF Gt(ssd, bsd)
        THEN IF IsZero(ssd)
             THEN Zero
             ELSE LET wp == Div(s.price_weight, s.size)
                      price_mult == IF futures_type = "Linear" THEN wp ELSE Div(One, wp)
                  IN  Add(Mul(ssd, price_mult), s.fees)
        ELSE IF IsZero(bsd)
             THEN Zero
             ELSE LET wp == Div(b.price_weight, b.size)
                      price_mult == IF futures_type = "Linear" THEN wp ELSE Div(One, wp)
                  IN  Add(Mul(bsd, price_mult), b.fees)

order_margin(orders, pos_size, futures_type, leverage, fee_maker) ==
    LET b == SideTotals(orders, "Buy", futures_type, fee_maker)
        s == SideTotals(orders, "Sell", futures_type, fee_maker)
        bsd == Sub(b.size, RAbs(RMin(R(pos_size), Zero)))
        ssd == Sub(s.size, RMax(R(pos_size), Zero))
    IN  IF (IsZero(b.size) /\ IsZero(s.size)) \/ (IsZero(bsd) /\ IsZero(ssd))
        THEN Zero
        ELSE IF Gt(ssd, bsd)
        THEN IF IsZero(ssd)
             THEN Zero
             ELSE LET wp == Div(s.price_weight, s.size)
                      price_mult == IF futures_type = "Linear" THEN wp ELSE Div(One, wp)
                  IN  Add(Div(Mul(ssd, price_mult), R(leverage)), s.fees)
        ELSE IF IsZero(bsd)
             THEN Zero
             ELSE LET wp == Div(b.price_weight, b.size)
                      price_mult == IF futures_type = "Linear" THEN wp ELSE Div(One, wp)
                  IN  Add(Div(Mul(bsd, price_mult), R(leverage)), b.fees)

----------------------------------------------------------------------------
(* Currency conversion and profit and loss (MarginCurrency).               *)

\* A quantity of the size currency at a price, in the margin currency.
convert(futures_type, qty, price) ==
    IF futures_type = "Linear" THEN Mul(qty, price) ELSE Div(qty, price)

\* Profit and loss of a signed quantity (long > 0, short < 0) entered at
\* entry_price and exited at exit_price, in the margin currency.
pnl(futures_type, entry_price, exit_price, quantity) ==
    IF futures_type = "Linear"
    THEN Mul(quantity, Sub(exit_price, entry_price))
    ELSE Mul(quantity, Sub(Div(One, entry_price), Div(One, exit_price)))

----------------------------------------------------------------------------
(* The Account: position, margin and the map of resting limit orders, kept  *)
(* as a sequence in insertion order.                                        *)

\* The id an order carries before the exchange has numbered it.
DefaultOrderId == 0

NoOrder == [id |-> DefaultOrderId, side |-> "Buy", otype |-> "None",
            limit_price |-> 0, quantity |-> 0]

IdIndex(orders, id) ==
    IF \E i \in 1..Len(orders) : orders[i].id = id
    THEN CHOOSE i \in 1..Len(orders) : orders[i].id = id
    ELSE 0

\* map.insert(key, value): replaces the value of a key that is present.
MapInsert(orders, o) ==
    IF IdIndex(orders, o.id) = 0
    THEN Append(orders, o)
    ELSE [orders EXCEPT ![IdIndex(orders, o.id)] = o]

MapRemove(orders, id) ==
    LET i == IdIndex(orders, id)
    IN  IF i = 0 THEN orders
        ELSE SubSeq(orders, 1, i - 1) \o SubSeq(orders, i + 1, Len(orders))

NewAccount(leverage, starting_balance) ==
    [position |-> [size |-> 0, entry_price |-> Zero, leverage |-> leverage],
     margin |-> [wallet_balance |-> starting_balance,
                 position_margin |-> Zero,
                 order_margin |-> Zero],
     active_limit_orders |-> <<>>,
     open_limit_buy_size |-> 0,
     open_limit_sell_size |-> 0]

available_balance(acc) ==
    Sub(Sub(acc.margin.wallet_balance, acc.margin.position_margin),
        acc.margin.order_margin)

num_active_limit_orders(acc) == Len(acc.active_limit_orders)

\* The margin of a position: its notional at the entry price over leverage.
PositionMargin(futures_type, size, entry_price, leverage) ==
    IF size = 0 THEN Zero
    ELSE Div(convert(futures_type, R(Abs(size)), entry_price), R(leverage))

\* append_limit_order paying the incremental order margin out of the wallet.
append_limit_order_from_wallet(acc, o, order_margin_inc) ==
    [acc EXCEPT
       !.active_limit_orders = MapInsert(@, o),
       !.margin.wallet_balance = Sub(@, order_margin_inc),
       !.open_limit_buy_size = IF o.side = "Buy" THEN @ + o.quantity ELSE @,
       !.open_limit_sell_size = IF o.side = "Sell" THEN @ + o.quantity ELSE @]

\* Insert the order and charge the incremental order margin.
append_limit_order(acc, o, order_margin_inc) ==
    [acc EXCEPT
       !.active_limit_orders = MapInsert(@, o),
       !.margin.order_margin = Add(@, order_margin_inc),
       !.open_limit_buy_size = IF o.side = "Buy" THEN @ + o.quantity ELSE @,
       !.open_limit_sell_size = IF o.side = "Sell" THEN @ + o.quantity ELSE @]

\* remove_limit_order leaving the cached open sizes as they are.
remove_limit_order_keeping_open_size(acc, futures_type, fee_maker, id) ==
    LET i == IdIndex(acc.active_limit_orders, id)
        rest == MapRemove(acc.active_limit_orders, id)
    IN  IF i = 0 THEN acc
        ELSE [acc EXCEPT
                !.active_limit_orders = rest,
                !.margin.order_margin =
                    order_margin(rest, acc.position.size, futures_type,
                                 acc.position.leverage, fee_maker)]

\* Remove the order and recompute the order margin over what remains.
remove_limit_order(acc, futures_type, fee_maker, id) ==
    LET i == IdIndex(acc.active_limit_orders, id)
        o == acc.active_limit_orders[i]
        rest == MapRemove(acc.active_limit_orders, id)
    IN  IF i = 0 THEN acc
        ELSE [acc EXCEPT
                !.active_limit_orders = rest,
                !.margin.order_margin =
                    order_margin(rest, acc.position.size, futures_type,
                                 acc.position.leverage, fee_maker),
                !.open_limit_buy_size = IF o.side = "Buy" THEN @ - o.quantity ELSE @,
                !.open_limit_sell_size = IF o.side = "Sell" THEN @ - o.quantity ELSE @]

deduce_fees(acc, amount) ==
    [acc EXCEPT !.margin.wallet_balance = Sub(@, amount)]

\* The three position transitions; signed_qty > 0 buys, < 0 sells.
WithPosition(acc, futures_type, size, entry_price, realized) ==
    [acc EXCEPT
       !.position.size = size,
       !.position.entry_price = entry_price,
       !.margin.wallet_balance = Add(@, realized),
       !.margin.position_margin =
           PositionMargin(futures_type, size, entry_price, acc.position.leverage)]

try_increase(acc, futures_type, signed_qty, price) ==
    LET old == Abs(acc.position.size)
        q == Abs(signed_qty)
        entry == Div(Add(Mul(R(old), acc.position.entry_price), Mul(R(q), price)),
                     R(old + q))
    IN  WithPosition(acc, futures_type, acc.position.size + signed_qty, entry, Zero)

try_decrease(acc, futures_type, signed_qty, price) ==
    LET closed == -signed_qty   \* the part of the position that is closed, signed
    IN  WithPosition(acc, futures_type, acc.position.size + signed_qty,
                     acc.position.entry_price,
                     pnl(futures_type, acc.position.entry_price, price, R(closed)))

try_turn_around(acc, futures_type, signed_qty, price) ==
    WithPosition(acc, futures_type, acc.position.size + signed_qty, price,
                 IF acc.position.size = 0 THEN Zero
                 ELSE pnl(futures_type, acc.position.entry_price, price,
                          R(acc.position.size)))

\* Account::change_position: dispatch on the sign of the position.
change_position(acc, futures_type, side, quantity, price) ==
    LET pos == acc.position.size
        signed_qty == IF side = "Buy" THEN quantity ELSE -quantity
    IN  IF pos = 0 \/ (pos > 0) = (side = "Buy")
        THEN try_increase(acc, futures_type, signed_qty, price)
        ELSE IF Abs(pos) >= quantity
        THEN try_decrease(acc, futures_type, signed_qty, price)
        ELSE try_turn_around(acc, futures_type, signed_qty, price)

----------------------------------------------------------------------------
(* Validator, src/src/validator.rs                                          *)

Ok == "Ok"

\* order_cost_market taking, for a flat account, the open limit size of the
\* order's own side.
order_cost_market_own_side_open_size(v, futures_type, order, acc) ==
    LET pos_size == acc.position.size
        q == order.quantity
        dc == IF pos_size = 0
              THEN IF order.side = "Buy"
                   THEN <<IF q < acc.open_limit_buy_size THEN q
                          ELSE acc.open_limit_buy_size, q>>
                   ELSE <<IF q < acc.open_limit_sell_size THEN q
                          ELSE acc.open_limit_sell_size, q>>
              ELSE IF pos_size > 0
              THEN IF order.side = "Buy"
                   THEN <<0, q>>
                   ELSE <<IF q < pos_size THEN q ELSE pos_size,
                          IF q - pos_size > 0 THEN q - pos_size ELSE 0>>
              ELSE IF order.side = "Buy"
                   THEN <<IF q < Abs(pos_size) THEN q ELSE Abs(pos_size),
                          IF q - Abs(pos_size) > 0 THEN q - Abs(pos_size) ELSE 0>>
                   ELSE <<0, q>>
        l == R(acc.position.leverage)
        debit == Div(R(dc[1]), l)
        credit == Div(R(dc[2]), l)
        fee_of_size == Mul(R(q), v.fee_taker)
        price == IF order.side = "Buy" THEN v.ask ELSE v.bid
    IN  <<convert(futures_type, debit, price),
          Add(convert(futures_type, credit, price),
              convert(futures_type, fee_of_size, price))>>

\* Validator::order_cost_market: <<debit, credit>>.
order_cost_market(v, futures_type, order, acc) ==
    LET pos_size == acc.position.size
        q == order.quantity
        dc == IF pos_size = 0
              THEN IF order.side = "Buy"
                   THEN <<IF q < acc.open_limit_sell_size THEN q
                          ELSE acc.open_limit_sell_size, q>>
                   ELSE <<IF q < acc.open_limit_buy_size THEN q
                          ELSE acc.open_limit_buy_size, q>>
              ELSE IF pos_size > 0
              THEN IF order.side = "Buy"
                   THEN <<0, q>>
                   ELSE <<IF q < pos_size THEN q ELSE pos_size,
                          IF q - pos_size > 0 THEN q - pos_size ELSE 0>>
              ELSE IF order.side = "Buy"
                   THEN <<IF q < Abs(pos_size) THEN q ELSE Abs(pos_size),
                          IF q - Abs(pos_size) > 0 THEN q - Abs(pos_size) ELSE 0>>
                   ELSE <<0, q>>
        l == R(acc.position.leverage)
        debit == Div(R(dc[1]), l)
        credit == Div(R(dc[2]), l)
        fee_of_size == Mul(R(q), v.fee_taker)
        price == IF order.side = "Buy" THEN v.ask ELSE v.bid
    IN  <<convert(futures_type, debit, price),
          Add(convert(futures_type, credit, price),
              convert(futures_type, fee_of_size, price))>>

\* validate_market_order rejecting when credit >= available_balance + debit.
validate_market_order_rejecting_equality(v, futures_type, o, acc) ==
    LET dc == order_cost_market(v, futures_type, o, acc)
    IN  IF Ge(dc[2], Add(available_balance(acc), dc[1]))
        THEN [result |-> "NotEnoughAvailableBalance", order_margin |-> Zero]
        ELSE [result |-> Ok, order_margin |-> Zero]

\* Validator::validate_market_order.
validate_market_order(v, futures_type, o, acc) ==
    LET dc == order_cost_market(v, futures_type, o, acc)
    IN  IF Gt(dc[2], Add(available_balance(acc), dc[1]))
        THEN [result |-> "NotEnoughAvailableBalance", order_margin |-> Zero]
        ELSE [result |-> Ok, order_margin |-> Zero]

\* Validator::limit_order_margin_cost: the candidate is inserted into a copy
\* of the map of resting orders under the id it carries.
limit_order_margin_cost(v, futures_type, order, acc) ==
    LET orders == MapInsert(acc.active_limit_orders, order)
        needed_order_margin ==
            order_margin(orders, acc.position.size, futures_type,
                         acc.position.leverage, v.fee_maker)
    IN  Sub(needed_order_margin, acc.margin.order_margin)

\* validate_limit_order with the cap compared by > in place of >=.
validate_limit_order_cap_off_by_one(v, futures_type, o, acc) ==
    IF num_active_limit_orders(acc) > v.max_num_open_orders
    THEN [result |-> "MaxActiveOrders", order_margin |-> Zero]
    ELSE IF o.side = "Buy" /\ Gt(R(o.limit_price), v.ask)
    THEN [result |-> "LimitPriceLargerThanAsk", order_margin |-> Zero]
    ELSE IF o.side = "Sell" /\ Lt(R(o.limit_price), v.bid)
    THEN [result |-> "LimitPriceLowerThanBid", order_margin |-> Zero]
    ELSE LET cost == limit_order_margin_cost(v, futures_type, o, acc)
         IN  IF Gt(cost, available_balance(acc))
             THEN [result |-> "NotEnoughAvailableBalance", order_margin |-> cost]
             ELSE [result |-> Ok, order_margin |-> cost]

\* validate_limit_order with the price checks compared by >= and <=.
validate_limit_order_price_checks_inclusive(v, futures_type, o, acc) ==
    IF num_active_limit_orders(acc) >= v.max_num_open_orders
    THEN [result |-> "MaxActiveOrders", order_margin |-> Zero]
    ELSE IF o.side = "Buy" /\ Ge(R(o.limit_price), v.ask)
    THEN [result |-> "LimitPriceLargerThanAsk", order_margin |-> Zero]
    ELSE IF o.side = "Sell" /\ Le(R(o.limit_price), v.bid)
    THEN [result |-> "LimitPriceLowerThanBid", order_margin |-> Zero]
    ELSE LET cost == limit_order_margin_cost(v, futures_type, o, acc)
         IN  IF Gt(cost, available_balance(acc))
             THEN [result |-> "NotEnoughAvailableBalance", order_margin |-> cost]
             ELSE [result |-> Ok, order_margin |-> cost]

\* validate_limit_order without the check against the available balance.
validate_limit_order_without_balance_check(v, futures_type, o, acc) ==
    IF num_active_limit_orders(acc) >= v.max_num_open_orders
    THEN [result |-> "MaxActiveOrders", order_margin |-> Zero]
    ELSE IF o.side = "Buy" /\ Gt(R(o.limit_price), v.ask)
    THEN [result |-> "LimitPriceLargerThanAsk", order_margin |-> Zero]
    ELSE IF o.side = "Sell" /\ Lt(R(o.limit_price), v.bid)
    THEN [result |-> "LimitPriceLowerThanBid", order_margin |-> Zero]
    ELSE [result |-> Ok,
          order_margin |-> limit_order_margin_cost(v, futures_type, o, acc)]

\* validate_limit_order checking the price before the cap.
validate_limit_order_price_before_cap(v, futures_type, o, acc) ==
    IF o.side = "Buy" /\ Gt(R(o.limit_price), v.ask)
    THEN [result |-> "LimitPriceLargerThanAsk", order_margin |-> Zero]
    ELSE IF o.side = "Sell" /\ Lt(R(o.limit_price), v.bid)
    THEN [result |-> "LimitPriceLowerThanBid", order_margin |-> Zero]
    ELSE IF num_active_limit_orders(acc) >= v.max_num_open_orders
    THEN [result |-> "MaxActiveOrders", order_margin |-> Zero]
    ELSE LET cost == limit_order_margin_cost(v, futures_type, o, acc)
         IN  IF Gt(cost, available_balance(acc))
             THEN [result |-> "NotEnoughAvailableBalance", order_margin |-> cost]
             ELSE [result |-> Ok, order_margin |-> cost]

\* Validator::validate_limit_order.
validate_limit_order(v, futures_type, o, acc) ==
    IF num_active_limit_orders(acc) >= v.max_num_open_orders
    THEN [result |-> "MaxActiveOrders", order_margin |-> Zero]
    ELSE IF o.side = "Buy" /\ Gt(R(o.limit_price), v.ask)
    THEN [result |-> "LimitPriceLargerThanAsk", order_margin |-> Zero]
    ELSE IF o.side = "Sell" /\ Lt(R(o.limit_price), v.bid)
    THEN [result |-> "LimitPriceLowerThanBid", order_margin |-> Zero]
    ELSE LET cost == limit_order_margin_cost(v, futures_type, o, acc)
         IN  IF Gt(cost, available_balance(acc))
             THEN [result |-> "NotEnoughAvailableBalance", order_margin |-> cost]
             ELSE [result |-> Ok, order_margin |-> cost]

----------------------------------------------------------------------------
(* Execution: market orders against the top of the book                     *)
(* (src/src/execution_engine.rs), limit orders at their limit price.        *)

\* execute_market_buy closing the whole short position on any decrease.
execute_market_buy_closing_whole_short(acc, futures_type, quantity, price) ==
    IF acc.position.size >= 0
    THEN try_increase(acc, futures_type, quantity, price)
    ELSE IF quantity > Abs(acc.position.size)
    THEN try_turn_around(acc, futures_type, quantity, price)
    ELSE try_decrease(acc, futures_type, Abs(acc.position.size), price)

\* ExecutionEngine::execute_market_buy.
execute_market_buy(acc, futures_type, quantity, price) ==
    IF acc.position.size >= 0
    THEN try_increase(acc, futures_type, quantity, price)
    ELSE IF quantity > Abs(acc.position.size)
    THEN try_turn_around(acc, futures_type, quantity, price)
    ELSE try_decrease(acc, futures_type, quantity, price)

\* execute_market_sell turning the position around when quantity equals it.
execute_market_sell_turn_at_equal(acc, futures_type, quantity, price) ==
    IF acc.position.size >= 0
    THEN IF quantity >= acc.position.size
         THEN try_turn_around(acc, futures_type, -quantity, price)
         ELSE try_decrease(acc, futures_type, -quantity, price)
    ELSE try_increase(acc, futures_type, -quantity, price)

\* ExecutionEngine::execute_market_sell.
execute_market_sell(acc, futures_type, quantity, price) ==
    IF acc.position.size >= 0
    THEN IF quantity > acc.position.size
         THEN try_turn_around(acc, futures_type, -quantity, price)
         ELSE try_decrease(acc, futures_type, -quantity, price)
    ELSE try_increase(acc, futures_type, -quantity, price)

\* execute_market_order sending both sides to execute_market_buy.
execute_market_order_sell_as_buy(acc, v, futures_type, order) ==
    LET price == IF order.side = "Buy" THEN v.ask ELSE v.bid
        fee == convert(futures_type, Mul(R(order.quantity), v.fee_taker), price)
    IN  deduce_fees(execute_market_buy(acc, futures_type, order.quantity, price), fee)

\* execute_market_order charging the maker fee.
execute_market_order_maker_fee(acc, v, futures_type, order) ==
    LET price == IF order.side = "Buy" THEN v.ask ELSE v.bid
        fee == convert(futures_type, Mul(R(order.quantity), v.fee_maker), price)
        filled == IF order.side = "Buy"
                  THEN execute_market_buy(acc, futures_type, order.quantity, price)
                  ELSE execute_market_sell(acc, futures_type, order.quantity, price)
    IN  deduce_fees(filled, fee)

\* ExecutionEngine::execute_market_order, with the taker fee of the fill.
execute_market_order(acc, v, futures_type, order) ==
    LET price == IF order.side = "Buy" THEN v.ask ELSE v.bid
        fee == convert(futures_type, Mul(R(order.quantity), v.fee_taker), price)
        filled == IF order.side = "Buy"
                  THEN execute_market_buy(acc, futures_type, order.quantity, price)
                  ELSE execute_market_sell(acc, futures_type, order.quantity, price)
    IN  deduce_fees(filled, fee)

\* execute_limit_order charging the taker fee.
execute_limit_order_taker_fee(acc, v, futures_type, order) ==
    LET price == R(order.limit_price)
        fee == convert(futures_type, Mul(R(order.quantity), v.fee_taker), price)
        released == remove_limit_order(acc, futures_type, v.fee_maker, order.id)
    IN  change_position(deduce_fees(released, fee), futures_type, order.side,
                        order.quantity, price)

\* A triggered limit order: its reserved margin is released, the maker fee
\* is charged and the position changes at the limit price.
execute_limit_order(acc, v, futures_type, order) ==
    LET price == R(order.limit_price)
        fee == convert(futures_type, Mul(R(order.quantity), v.fee_maker), price)
        released == remove_limit_order(acc, futures_type, v.fee_maker, order.id)
    IN  change_position(deduce_fees(released, fee), futures_type, order.side,
                        order.quantity, price)

\* Triggered with the extremes compared strictly.
Triggered_strictly(order, high, low) ==
    IF order.side = "Buy" THEN Lt(low, R(order.limit_price))
    ELSE Gt(high, R(order.limit_price))

\* Whether market data with the given extremes triggers a resting order.
Triggered(order, high, low) ==
    IF order.side = "Buy" THEN Le(low, R(order.limit_price))
    ELSE Ge(high, R(order.limit_price))

\* The trigger scan reporting the executed orders last-first.
RECURSIVE trigger_scan_reporting_last_first(_, _, _, _, _, _)
trigger_scan_reporting_last_first(acc, v, futures_type, orders, high, low) ==
    IF orders = <<>>
    THEN [account |-> acc, executed |-> <<>>]
    ELSE LET o == Head(orders)
             hit == Triggered(o, high, low)
             acc1 == IF hit THEN execute_limit_order(acc, v, futures_type, o) ELSE acc
             rest == trigger_scan_reporting_last_first(acc1, v, futures_type,
                                                       Tail(orders), high, low)
         IN  [account |-> rest.account,
              executed |-> IF hit THEN rest.executed \o <<o>> ELSE rest.executed]

\* The trigger scan over the orders resting at entry, in iteration order.
RECURSIVE trigger_scan(_, _, _, _, _, _)
trigger_scan(acc, v, futures_type, orders, high, low) ==
    IF orders = <<>>
    THEN [account |-> acc, executed |-> <<>>]
    ELSE LET o == Head(orders)
             hit == Triggered(o, high, low)
             acc1 == IF hit THEN execute_limit_order(acc, v, futures_type, o) ELSE acc
             rest == trigger_scan(acc1, v, futures_type, Tail(orders), high, low)
         IN  [account |-> rest.account,
              executed |-> IF hit THEN <<o>> \o rest.executed ELSE rest.executed]

\* Unrealized profit and loss at the mid price of the book.
mark_to_market_pnl(acc, futures_type, bid, ask) ==
    IF acc.position.size = 0 THEN Zero
    ELSE pnl(futures_type, acc.position.entry_price, Div(Add(bid, ask), R(2)),
             R(acc.position.size))

\* The liquidation trigger: marked to market, the available balance is negative.
liquidation_triggered(acc, futures_type, bid, ask) ==
    Lt(Add(available_balance(acc), mark_to_market_pnl(acc, futures_type, bid, ask)), Zero)

\* Liquidation: cancel every resting order, close the position at the
\* opposite top of the book and charge the taker fee.
liquidate_account(acc, v, futures_type, bid, ask) ==
    LET cancelled == [acc EXCEPT !.active_limit_orders = <<>>,
                                 !.margin.order_margin = Zero,
                                 !.open_limit_buy_size = 0,
                                 !.open_limit_sell_size = 0]
        size == acc.position.size
        side == IF size > 0 THEN "Sell" ELSE "Buy"
        price == IF size > 0 THEN bid ELSE ask
        fee == convert(futures_type, Mul(R(Abs(size)), v.fee_taker), price)
    IN  IF size = 0 THEN cancelled
        ELSE deduce_fees(change_position(cancelled, futures_type, side, Abs(size), price),
                         fee)

----------------------------------------------------------------------------
(* The engine's entry points over Account and Validator.                    *)

MaxOrderIds == 3
MaxSteps == 2

Ret(op, order, result, order_margin_inc, executed, liquidated) ==
    [op |-> op, order |-> order, result |-> result,
     order_margin |-> order_margin_inc, executed |-> executed,
     liquidated |-> liquidated]

NewValidator(fee_maker, fee_taker, max_num_open_orders) ==
    [fee_maker |-> fee_maker, fee_taker |-> fee_taker, bid |-> Zero, ask |-> Zero,
     max_num_open_orders |-> max_num_open_orders]

NewEngine(futures_type) ==
    [futures_type |-> futures_type, next_order_id |-> 0, step |-> 0]

\* submit_order: validate, then number the order, then execute a market
\* order at once or let a limit order rest.  A market order is submitted
\* once a snapshot of the book is stored: it executes at the bid or the ask.  ret keeps the order and its margin
\* only when the order was accepted.
SubmitOrder(o) ==
    /\ engine.next_order_id < MaxOrderIds
    /\ o.otype = "Market" => Gt(validator.bid, Zero)
    /\ LET ft == engine.futures_type
           val == IF o.otype = "Market"
                  THEN validate_market_order(validator, ft, o, account)
                  ELSE validate_limit_order(validator, ft, o, account)
           numbered == [o EXCEPT !.id = engine.next_order_id]
       IN  IF val.result # Ok
           THEN /\ ret' = Ret("submit_order", NoOrder, val.result, Zero, <<>>, FALSE)
                /\ UNCHANGED <<account, validator, engine>>
           ELSE /\ account' = IF o.otype = "Market"
                              THEN execute_market_order(account, validator, ft, numbered)
                              ELSE append_limit_order(account, numbered, val.order_margin)
                /\ engine' = [engine EXCEPT !.next_order_id = @ + 1]
                /\ ret' = Ret("submit_order", numbered, Ok, val.order_margin, <<>>, FALSE)
                /\ UNCHANGED validator
    /\ UNCHANGED <<omVars, exVars>>

\* cancel_order: remove a resting order and release its margin.
CancelOrder(id) ==
    /\ IF IdIndex(account.active_limit_orders, id) = 0
       THEN /\ ret' = Ret("cancel_order", NoOrder, "None", Zero, <<>>, FALSE)
            /\ UNCHANGED account
       ELSE /\ ret' = Ret("cancel_order",
                          account.active_limit_orders[IdIndex(account.active_limit_orders, id)],
                          Ok, Zero, <<>>, FALSE)
            /\ account' = remove_limit_order(account, engine.futures_type,
                                             validator.fee_maker, id)
    /\ UNCHANGED <<validator, engine, omVars, exVars>>

\* update_state: store the snapshot, check for liquidation, scan the resting
\* orders for triggers, advance the step.
UpdateState(bid, ask, high, low) ==
    /\ engine.step < MaxSteps
    /\ Le(bid, ask) /\ Le(low, bid) /\ Le(ask, high)
    /\ validator' = [validator EXCEPT !.bid = bid, !.ask = ask]
    /\ LET ft == engine.futures_type
           v == validator'
           scan == trigger_scan(account, v, ft, account.active_limit_orders, high, low)
       IN  IF liquidation_triggered(account, ft, bid, ask)
           THEN /\ account' = liquidate_account(account, v, ft, bid, ask)
                /\ UNCHANGED engine
                /\ ret' = Ret("update_state", NoOrder, Ok, Zero, <<>>, TRUE)
           ELSE /\ account' = scan.account
                /\ engine' = [engine EXCEPT !.step = @ + 1]
                /\ ret' = Ret("update_state", NoOrder, Ok, Zero, scan.executed, FALSE)
    /\ UNCHANGED <<omVars, exVars>>

NoRet == Ret("new", NoOrder, Ok, Zero, <<>>, FALSE)

\* The Exchange variables while another specification runs.
ExIdle == <<>>
NoExRet == [op |-> "new", result |-> "None"]

OmIdle ==
    [orders |-> <<>>, cand |-> NoOrder, pos_size |-> 0, futures_type |-> "Linear",
     leverage |-> 1, fee_maker |-> Zero, before |-> Zero, after |-> Zero,
     pc |-> "idle"]

----------------------------------------------------------------------------
(* SpecAcc: the entry points called in any order with bounded inputs.       *)

MaxNumOpenOrders == 2
PricesAcc == {4, 5}
QtysAcc == {1, 2}
\* <<futures_type, leverage>>
ConfigsAcc == {<<"Linear", 1>>, <<"Linear", 2>>, <<"Inverse", 1>>}
\* <<fee_maker, fee_taker>>
FeesAcc == {<<Frac(1, 10), Frac(1, 5)>>}
\* <<bid, ask, high, low>>
SnapshotsAcc ==
    {<<R(4), R(5), R(5), R(4)>>, <<R(3), R(3), R(3), R(3)>>,
     <<R(4), R(5), R(6), R(3)>>}

StartingBalance(futures_type) == IF futures_type = "Linear" THEN R(10) ELSE R(1)

LimitOrder(side, price, qty) ==
    [id |-> DefaultOrderId, side |-> side, otype |-> "Limit",
     limit_price |-> price, quantity |-> qty]

MarketOrder(side, qty) ==
    [id |-> DefaultOrderId, side |-> side, otype |-> "Market",
     limit_price |-> 0, quantity |-> qty]

OrdersAcc ==
    {LimitOrder(s, p, q) : s \in Sides, p \in PricesAcc, q \in QtysAcc}
    \cup {MarketOrder(s, q) : s \in Sides, q \in QtysAcc}

InitAcc ==
    /\ om = OmIdle
    /\ ret = NoRet
    /\ exchange = ExIdle
    /\ exret = NoExRet
    /\ \E c \in ConfigsAcc, fees \in FeesAcc :
        /\ account = NewAccount(c[2], StartingBalance(c[1]))
        /\ validator = NewValidator(fees[1], fees[2], MaxNumOpenOrders)
        /\ engine = NewEngine(c[1])

NextAcc ==
    \/ \E o \in OrdersAcc : SubmitOrder(o)
    \/ \E id \in 0..(MaxOrderIds - 1) : CancelOrder(id)
    \/ \E s \in SnapshotsAcc : UpdateState(s[1], s[2], s[3], s[4])

SpecAcc == InitAcc /\ [][NextAcc]_vars

----------------------------------------------------------------------------
(* SpecS4: the entry points on the account of the scenarios: linear         *)
(* futures, leverage 1, no fees, starting balance 1000, book 99 / 100.      *)

QtysS4 == {1, 4, 5}
PricesS4 == {99, 100}
SnapshotsS4 == {<<R(99), R(100), R(100), R(99)>>}

OrdersS4 == {LimitOrder(s, p, q) : s \in Sides, p \in PricesS4, q \in QtysS4}

InitS4 ==
    /\ om = OmIdle
    /\ ret = NoRet
    /\ exchange = ExIdle
    /\ exret = NoExRet
    /\ account = NewAccount(1, R(1000))
    /\ validator = NewValidator(Zero, Zero, 10)
    /\ engine = NewEngine("Linear")

NextS4 ==
    \/ \E o \in OrdersS4 : SubmitOrder(o)
    \/ \E id \in 0..(MaxOrderIds - 1) : CancelOrder(id)
    \/ \E s \in SnapshotsS4 : UpdateState(s[1], s[2], s[3], s[4])

SpecS4 == InitS4 /\ [][NextS4]_vars

----------------------------------------------------------------------------
(* SpecScen: the entry points on the account of scenarios S1 to S3: linear  *)
(* futures, starting balance 1000, max_open 10, leverage 1 without fees or *)
(* leverage 2 with fees; the book moves between 99 / 100, 96 / 97 and       *)
(* 101 / 102.                                                               *)

QtysScen == {5, 9}
PricesScen == {98, 99, 100}
\* <<bid, ask, high, low>>
SnapshotsScen ==
    {<<R(99), R(100), R(100), R(99)>>, <<R(96), R(97), R(97), R(96)>>,
     <<R(101), R(102), R(102), R(101)>>}

OrdersScen == {LimitOrder(s, p, q) : s \in Sides, p \in PricesScen, q \in QtysScen}

\* <<leverage, fee_maker, fee_taker>>: the scenarios' account, and one with
\* leverage and fees.
ConfigsScen == {<<1, Zero, Zero>>, <<2, Frac(1, 10), Frac(1, 5)>>}

InitScen ==
    /\ om = OmIdle
    /\ ret = NoRet
    /\ exchange = ExIdle
    /\ exret = NoExRet
    /\ engine = NewEngine("Linear")
    /\ \E c \in ConfigsScen :
        /\ account = NewAccount(c[1], R(1000))
        /\ validator = NewValidator(c[2], c[3], 10)

NextScen ==
    \/ \E o \in OrdersScen : SubmitOrder(o)
    \/ \E id \in 0..(MaxOrderIds - 1) : CancelOrder(id)
    \/ \E s \in SnapshotsScen : UpdateState(s[1], s[2], s[3], s[4])

SpecScen == InitScen /\ [][NextScen]_vars

----------------------------------------------------------------------------
(* SpecOM: order_margin applied to bounded inputs, before and after one     *)
(* more limit order is added to the set.                                    *)

MaxOrdersOM == 2
QtysOM == {1, 2}
MaxPosOM == 2
PricesOM == {2, 3}
LeveragesOM == {1, 2}
FeesOM == {Zero, Frac(1, 10)}

LimitOrdersOM ==
    [id : {0}, side : Sides, limit_price : PricesOM, quantity : QtysOM]

SeqsUpTo(S, n) == UNION {[1..k -> S] : k \in 0..n}

InitOM ==
    /\ \E orders \in SeqsUpTo(LimitOrdersOM, MaxOrdersOM), cand \in LimitOrdersOM,
       pos \in (-MaxPosOM)..MaxPosOM, ft \in FuturesTypes,
       lev \in LeveragesOM, fee \in FeesOM :
        om = [orders |-> orders, cand |-> cand, pos_size |-> pos,
              futures_type |-> ft, leverage |-> lev, fee_maker |-> fee,
              before |-> Zero, after |-> Zero, pc |-> "input"]
    /\ account = NewAccount(1, Zero)
    /\ validator = NewValidator(Zero, Zero, 0)
    /\ engine = NewEngine("Linear")
    /\ ret = NoRet
    /\ exchange = ExIdle
    /\ exret = NoExRet

ComputeOrderMargin ==
    /\ om.pc = "input"
    /\ om' = [om EXCEPT
                !.before = order_margin(om.orders, om.pos_size, om.futures_type,
                                        om.leverage, om.fee_maker),
                !.after = order_margin(Append(om.orders, om.cand), om.pos_size,
                                       om.futures_type, om.leverage, om.fee_maker),
                !.pc = "done"]
    /\ UNCHANGED <<accVars, exVars>>

NextOM == ComputeOrderMargin

SpecOM == InitOM /\ [][NextOM]_vars

----------------------------------------------------------------------------
(* Exchange, src/src/exchange.rs.  Sizes of orders are in the asset, the    *)
(* position size is in the base currency; the logs total_rpnl, rpnls and    *)
(* acc_tracker and the wall-clock timestamp of an order are written only,   *)
(* never read, and are left out.                                            *)

NewExchange(config) ==
    [config |-> config,
     position |-> [size |-> Zero, value |-> Zero, entry_price |-> Zero,
                   liq_price |-> Zero, margin |-> Zero, leverage |-> One,
                   unrealized_pnl |-> Zero, roe_percent |-> Zero],
     margin |-> [wallet_balance |-> One, margin_balance |-> One,
                 position_margin |-> Zero, order_margin |-> Zero,
                 available_balance |-> One],
     bid |-> Zero, ask |-> Zero, init |-> TRUE,
     orders_active |-> <<>>, next_order_id |-> 0]

\* Exchange::unrealized_pnl
unrealized_pnl(x) ==
    IF IsZero(x.position.size) THEN Zero
    ELSE IF Gt(x.position.size, Zero)
    THEN Mul(Sub(Div(One, x.position.entry_price), Div(One, x.bid)),
             RAbs(x.position.size))
    ELSE Mul(Sub(Div(One, x.ask), Div(One, x.position.entry_price)),
             RAbs(x.position.size))

\* Exchange::roe
roe(x) ==
    IF Gt(x.position.size, Zero)
    THEN Div(Sub(x.bid, x.position.entry_price), x.position.entry_price)
    ELSE Div(Sub(x.position.entry_price, x.ask), x.position.entry_price)

\* Exchange::update_liq_price
update_liq_price(x) ==
    [x EXCEPT !.position.liq_price =
        IF IsZero(x.position.size) THEN Zero
        ELSE IF Gt(x.position.size, Zero)
        THEN Sub(x.position.entry_price,
                 Div(x.position.entry_price, x.position.leverage))
        ELSE Add(x.position.entry_price,
                 Div(x.position.entry_price, x.position.leverage))]

\* The tail shared by buy_market, sell_market and liquidate: position_margin
\* and margin_balance from the position.
RefreshMargin(x) ==
    [x EXCEPT !.margin.position_margin =
                  Add(Div(x.position.value, x.position.leverage),
                      x.position.unrealized_pnl),
              !.margin.margin_balance =
                  Add(x.margin.wallet_balance, x.position.unrealized_pnl)]

\* unrealized_pnl and roe_percent of the position, recomputed.
MarkPosition(x) ==
    LET x1 == [x EXCEPT !.position.unrealized_pnl = unrealized_pnl(x)]
    IN  [x1 EXCEPT !.position.roe_percent = roe(x1)]

\* Exchange::buy_market; amount_base > 0 is asserted by the code.
buy_market(x, amount_base) ==
    LET amount == R(amount_base)
        fee_base == R(Round(Mul(x.config.fee_taker, amount)))
        fee_asset == Div(fee_base, x.ask)
        add_margin == Div(Div(amount, x.ask), x.position.leverage)
        rpnl == Mul(Sub(amount, fee_base),
                    Sub(Div(One, x.position.entry_price), Div(One, x.ask)))
        x1 == IF Lt(x.position.size, Zero)
              THEN [x EXCEPT
                      !.margin.wallet_balance = Add(@, rpnl),
                      !.margin.available_balance = Add(@, Sub(add_margin, fee_asset)),
                      !.position.margin = Sub(@, add_margin)]
              ELSE [x EXCEPT
                      !.margin.available_balance = Sub(@, Sub(add_margin, fee_asset)),
                      !.position.margin = Add(@, add_margin)]
        x2 == [x1 EXCEPT !.position.entry_price =
                  Div(Add(Mul(x.ask, amount),
                          Mul(x.position.entry_price, RAbs(x.position.size))),
                      Add(amount, RAbs(x.position.size)))]
        x3 == [x2 EXCEPT !.position.size = Add(@, amount)]
        x4 == [x3 EXCEPT !.position.value = Div(RAbs(x3.position.size), x.ask)]
    IN  IF Gt(Add(add_margin, fee_asset), x.margin.available_balance)
        THEN x
        ELSE RefreshMargin(update_liq_price(MarkPosition(x4)))

\* Exchange::sell_market; amount_base > 0 is asserted by the code.
sell_market(x, amount_base) ==
    LET amount == R(amount_base)
        fee_base == Mul(x.config.fee_taker, amount)
        fee_asset == Div(fee_base, x.bid)
        add_margin == Div(Div(amount, x.bid), x.position.leverage)
        rpnl == Mul(Sub(amount, fee_base),
                    Sub(Div(One, x.bid), Div(One, x.position.entry_price)))
        x1 == IF Gt(x.position.size, Zero)
              THEN [x EXCEPT
                      !.margin.wallet_balance = Add(@, rpnl),
                      !.margin.available_balance = Add(@, Sub(add_margin, fee_asset)),
                      !.position.margin = Sub(@, add_margin)]
              ELSE [x EXCEPT
                      !.margin.available_balance = Sub(@, Sub(add_margin, fee_asset)),
                      !.position.margin = Add(@, add_margin)]
        x2 == [x1 EXCEPT !.position.entry_price =
                  Div(Add(Mul(x.bid, amount),
                          Mul(x.position.entry_price, RAbs(x.position.size))),
                      Add(amount, RAbs(x.position.size)))]
        x3 == [x2 EXCEPT !.position.size = Sub(@, amount)]
        x4 == [x3 EXCEPT !.position.value = Div(RAbs(x3.position.size), x.bid)]
    IN  IF Gt(Add(add_margin, fee_asset), x.margin.available_balance)
        THEN x
        ELSE RefreshMargin(update_liq_price(MarkPosition(x4)))

\* Exchange::liquidate: the position is closed at the bid (long) or the ask
\* (short) and its profit or loss is added to the wallet.
liquidate(x) ==
    LET price == IF Gt(x.position.size, Zero) THEN x.bid ELSE x.ask
        liq_margin == Div(Div(RAbs(x.position.size), price), x.position.leverage)
        rpnl == Mul(RAbs(x.position.size),
                    Sub(Div(One, x.position.entry_price), Div(One, price)))
        x1 == [x EXCEPT
                 !.margin.wallet_balance = Add(@, rpnl),
                 !.margin.available_balance = Sub(@, liq_margin),
                 !.position.margin = Zero,
                 !.position.entry_price = Zero,
                 !.position.size = Zero,
                 !.position.value = Zero,
                 !.position.unrealized_pnl = Zero,
                 !.position.roe_percent = Zero]
        x2 == RefreshMargin(update_liq_price(x1))
    IN  [x2 EXCEPT !.margin.available_balance =
            Sub(x2.margin.margin_balance, x2.margin.position_margin)]

\* Order::mark_done on the order at the index.
MarkDone(x, i) == [x EXCEPT !.orders_active[i].done = TRUE]

\* Exchange::handle_stop_market_order; the result of the market order is
\* dropped and the order is marked done either way.
handle_stop_market_order(x, i) ==
    LET o == x.orders_active[i]
    IN  IF o.side = "Buy"
        THEN IF Gt(o.price, x.ask) THEN x
             ELSE MarkDone(buy_market(x, Trunc(Mul(o.size, x.ask))), i)
        ELSE IF Gt(o.price, x.bid) THEN x
             ELSE MarkDone(sell_market(x, Trunc(Mul(o.size, x.bid))), i)

\* Exchange::handle_take_profit_market_order
handle_take_profit_market_order(x, i) ==
    LET o == x.orders_active[i]
    IN  IF o.side = "Buy"
        THEN IF Lt(o.price, x.bid) THEN x
             ELSE MarkDone(buy_market(x, Trunc(Mul(o.size, x.ask))), i)
        ELSE IF Gt(o.price, x.ask) THEN x
             ELSE MarkDone(sell_market(x, Trunc(Mul(o.size, x.bid))), i)

\* The first loop of check_orders, from index i on.
RECURSIVE HandleFrom(_, _)
HandleFrom(x, i) ==
    IF i > Len(x.orders_active) THEN x
    ELSE LET t == x.orders_active[i].order_type
             x1 == IF t = "StopMarket" THEN handle_stop_market_order(x, i)
                   ELSE IF t = "TakeProfitMarket"
                   THEN handle_take_profit_market_order(x, i)
                   ELSE x
         IN  HandleFrom(x1, i + 1)

\* The second loop of check_orders, from index i on: the index advances
\* after a removal too.
RECURSIVE RemoveDoneFrom(_, _)
RemoveDoneFrom(orders, i) ==
    IF i > Len(orders) THEN orders
    ELSE IF orders[i].done
    THEN RemoveDoneFrom(SubSeq(orders, 1, i - 1) \o SubSeq(orders, i + 1, Len(orders)),
                        i + 1)
    ELSE RemoveDoneFrom(orders, i + 1)

\* Exchange::check_orders
check_orders(x) ==
    LET x1 == HandleFrom(x, 1)
    IN  [x1 EXCEPT !.orders_active = RemoveDoneFrom(@, 1)]

\* validate_stop_market_order accepting a trigger price at the quote.
validate_stop_market_order_accepting_equality(x, o) ==
    IF o.side = "Buy" THEN ~Lt(o.price, x.ask) ELSE ~Gt(o.price, x.bid)

\* Exchange::validate_stop_market_order
validate_stop_market_order(x, o) ==
    IF o.side = "Buy" THEN ~Le(o.price, x.ask) ELSE ~Ge(o.price, x.bid)

\* Exchange::validate_take_profit_market_order
validate_take_profit_market_order(x, o) ==
    IF o.side = "Buy" THEN ~Gt(o.price, x.bid) ELSE ~Lt(o.price, x.ask)

MaxTrades == 3
MaxExchangeOrders == 2

ExRet(op, result, trades) == [op |-> op, result |-> result, trades |-> trades]

\* Exchange::set_leverage
set_leverage(l) ==
    /\ LET new_position_margin ==
               Add(Div(exchange.position.value, l), exchange.position.unrealized_pnl)
           x1 == [exchange EXCEPT !.position.leverage = l]
           x2 == [x1 EXCEPT !.margin.position_margin =
                                Add(Div(x1.position.value, l),
                                    x1.position.unrealized_pnl)]
       IN  IF \/ Gt(l, exchange.config.max_leverage)
              \/ Lt(l, exchange.config.min_leverage)
              \/ Gt(new_position_margin, exchange.margin.wallet_balance)
           THEN /\ exret' = ExRet("set_leverage", "false", exret.trades)
                /\ UNCHANGED exchange
           ELSE /\ exchange' =
                      [x2 EXCEPT !.margin.available_balance =
                          Sub(Sub(x2.margin.margin_balance, x2.margin.order_margin),
                              x2.margin.position_margin)]
                /\ exret' = ExRet("set_leverage", "true", exret.trades)
    /\ UNCHANGED <<omVars, accVars>>

\* Exchange::consume_trade
consume_trade(price, size) ==
    /\ exret.trades < MaxTrades
    /\ LET x0 == IF exchange.init
                 THEN [exchange EXCEPT !.init = FALSE, !.bid = price, !.ask = price]
                 ELSE exchange
           x1 == IF size > 0 THEN [x0 EXCEPT !.ask = price]
                 ELSE [x0 EXCEPT !.bid = price]
           long == Gt(x1.position.size, Zero)
           short == Lt(x1.position.size, Zero)
           x2 == IF long \/ short THEN MarkPosition(x1) ELSE x1
           x3 == [x2 EXCEPT !.margin.margin_balance =
                     Add(x2.margin.wallet_balance, x2.position.unrealized_pnl)]
           x4 == [x3 EXCEPT !.margin.position_margin =
                     Add(Div(x3.position.value, x3.position.leverage),
                         x3.position.unrealized_pnl)]
           x5 == [x4 EXCEPT !.margin.available_balance =
                     Sub(x4.margin.margin_balance, x4.margin.position_margin)]
       IN  IF \/ long /\ Lt(price, x1.position.liq_price)
              \/ short /\ Gt(price, x1.position.liq_price)
           THEN /\ exchange' = liquidate(x1)
                /\ exret' = ExRet("consume_trade", "true", exret.trades + 1)
           ELSE /\ exchange' = check_orders(x5)
                /\ exret' = ExRet("consume_trade", "false", exret.trades + 1)
    /\ UNCHANGED <<omVars, accVars>>

\* The readings of the wall clock, Utc::now(), in milliseconds.
Clock == {0, 1}

\* Exchange::submit_order with the id taken before the checks.
submit_order_id_before_checks(o) ==
    /\ \/ exchange.next_order_id < MaxExchangeOrders
       \/ Len(exchange.orders_active) >= exchange.config.max_active_orders
    /\ \E now \in Clock :
       LET x == [exchange EXCEPT !.next_order_id = @ + 1]
           valid == IF o.order_type = "StopMarket"
                    THEN validate_stop_market_order(x, o)
                    ELSE IF o.order_type = "TakeProfitMarket"
                    THEN validate_take_profit_market_order(x, o)
                    ELSE TRUE
           init_margin == Div(Div(o.size, x.bid), x.position.leverage)
           placed == [o EXCEPT !.id = exchange.next_order_id, !.timestamp = now]
       IN  IF Len(x.orders_active) >= x.config.max_active_orders
           THEN /\ exret' = ExRet("submit_order", "MaxActiveOrders", exret.trades)
                /\ exchange' = x
           ELSE IF ~valid
           THEN /\ exret' = ExRet("submit_order", "InvalidOrder", exret.trades)
                /\ exchange' = x
           ELSE IF Gt(init_margin, x.margin.available_balance)
           THEN /\ exret' = ExRet("submit_order", "NotEnoughAvailableBalance",
                                  exret.trades)
                /\ exchange' = x
           ELSE /\ exchange' =
                      [x EXCEPT
                         !.margin.order_margin = Add(@, init_margin),
                         !.margin.available_balance = Sub(@, init_margin),
                         !.orders_active = Append(@, placed)]
                /\ exret' = ExRet("submit_order", "None", exret.trades)
    /\ UNCHANGED <<omVars, accVars>>

\* Exchange::submit_order putting the order in front of the active orders.
submit_order_insert_front(o) ==
    /\ \/ exchange.next_order_id < MaxExchangeOrders
       \/ Len(exchange.orders_active) >= exchange.config.max_active_orders
    /\ \E now \in Clock :
       LET x == exchange
           valid == IF o.order_type = "StopMarket"
                    THEN validate_stop_market_order(x, o)
                    ELSE IF o.order_type = "TakeProfitMarket"
                    THEN validate_take_profit_market_order(x, o)
                    ELSE TRUE
           init_margin == Div(Div(o.size, x.bid), x.position.leverage)
           placed == [o EXCEPT !.id = x.next_order_id, !.timestamp = now]
       IN  IF Len(x.orders_active) >= x.config.max_active_orders
           THEN /\ exret' = ExRet("submit_order", "MaxActiveOrders", exret.trades)
                /\ UNCHANGED exchange
           ELSE IF ~valid
           THEN /\ exret' = ExRet("submit_order", "InvalidOrder", exret.trades)
                /\ UNCHANGED exchange
           ELSE IF Gt(init_margin, x.margin.available_balance)
           THEN /\ exret' = ExRet("submit_order", "NotEnoughAvailableBalance",
                                  exret.trades)
                /\ UNCHANGED exchange
           ELSE /\ exchange' =
                      [x EXCEPT
                         !.margin.order_margin = Add(@, init_margin),
                         !.margin.available_balance = Sub(@, init_margin),
                         !.next_order_id = @ + 1,
                         !.orders_active = <<placed>> \o @]
                /\ exret' = ExRet("submit_order", "None", exret.trades)
    /\ UNCHANGED <<omVars, accVars>>

\* Exchange::submit_order.  Line 295 adds a name that no line defines to
\* order_margin; it is read as init_margin, the amount the check before it
\* computed.  With the bid still 0 the f64 division gives +inf, which the
\* fraction <<1, 0>> stands for: larger than every balance.
submit_order(o) ==
    /\ \/ exchange.next_order_id < MaxExchangeOrders
       \/ Len(exchange.orders_active) >= exchange.config.max_active_orders
    /\ \E now \in Clock :
       LET x == exchange
           valid == IF o.order_type = "StopMarket"
                    THEN validate_stop_market_order(x, o)
                    ELSE IF o.order_type = "TakeProfitMarket"
                    THEN validate_take_profit_market_order(x, o)
                    ELSE TRUE
           init_margin == Div(Div(o.size, x.bid), x.position.leverage)
           placed == [o EXCEPT !.id = x.next_order_id, !.timestamp = now]
       IN  IF Len(x.orders_active) >= x.config.max_active_orders
           THEN /\ exret' = ExRet("submit_order", "MaxActiveOrders", exret.trades)
                /\ UNCHANGED exchange
           ELSE IF ~valid
           THEN /\ exret' = ExRet("submit_order", "InvalidOrder", exret.trades)
                /\ UNCHANGED exchange
           ELSE IF Gt(init_margin, x.margin.available_balance)
           THEN /\ exret' = ExRet("submit_order", "NotEnoughAvailableBalance",
                                  exret.trades)
                /\ UNCHANGED exchange
           ELSE /\ exchange' =
                      [x EXCEPT
                         !.margin.order_margin = Add(@, init_margin),
                         !.margin.available_balance = Sub(@, init_margin),
                         !.next_order_id = @ + 1,
                         !.orders_active = Append(@, placed)]
                /\ exret' = ExRet("submit_order", "None", exret.trades)
    /\ UNCHANGED <<omVars, accVars>>

\* The value of a call that returns Some(order); the order is kept by its
\* id, which is unique among the active orders.
ExRetSome(op, order, trades) ==
    [op |-> op, result |-> "Some", id |-> order.id, trades |-> trades]

\* cancel_order removing the last active order, whatever id is asked for.
cancel_order_removing_last(order_id) ==
    /\ LET orders == exchange.orders_active
           hits == {i \in 1..Len(orders) : orders[i].id = order_id}
       IN  IF hits = {}
           THEN /\ exret' = ExRet("cancel_order", "None", exret.trades)
                /\ UNCHANGED exchange
           ELSE /\ exchange' = [exchange EXCEPT !.orders_active =
                                   SubSeq(orders, 1, Len(orders) - 1)]
                /\ exret' = ExRetSome("cancel_order", orders[Len(orders)],
                                      exret.trades)
    /\ UNCHANGED <<omVars, accVars>>

\* Exchange::cancel_order: the first active order with the id is removed
\* from the vector and returned; the margin reserved for it stays reserved.
cancel_order(order_id) ==
    /\ LET orders == exchange.orders_active
           hits == {i \in 1..Len(orders) : orders[i].id = order_id}
           i == CHOOSE j \in hits : \A k \in hits : j <= k
       IN  IF hits = {}
           THEN /\ exret' = ExRet("cancel_order", "None", exret.trades)
                /\ UNCHANGED exchange
           ELSE /\ exchange' = [exchange EXCEPT !.orders_active =
                                   SubSeq(orders, 1, i - 1)
                                       \o SubSeq(orders, i + 1, Len(orders))]
                /\ exret' = ExRetSome("cancel_order", orders[i], exret.trades)
    /\ UNCHANGED <<omVars, accVars>>

----------------------------------------------------------------------------
(* Spec: the public methods of the Exchange called in any order.            *)

TradePrices == {1, 4}
OrderPricesEx == {2, 4}
LeveragesEx == {2}
\* Config: fee_taker, max_active_orders, max_leverage, min_leverage.
ConfigsEx ==
    {[fee_taker |-> f, max_active_orders |-> 2, max_leverage |-> R(2),
      min_leverage |-> One] : f \in {Zero, Frac(1, 4)}}

ExOrder(order_type, side, price, size) ==
    [id |-> 0, side |-> side, order_type |-> order_type, price |-> R(price),
     size |-> R(size), done |-> FALSE, timestamp |-> 0]

OrdersEx ==
    {ExOrder(t, sd, p, 1) : t \in {"StopMarket", "TakeProfitMarket"},
                            sd \in Sides, p \in OrderPricesEx}
    \cup {ExOrder("Market", "Buy", 4, 1)}

Init ==
    /\ om = OmIdle
    /\ account = NewAccount(1, Zero)
    /\ validator = NewValidator(Zero, Zero, 0)
    /\ engine = NewEngine("Linear")
    /\ ret = NoRet
    /\ \E config \in ConfigsEx : exchange = NewExchange(config)
    /\ exret = ExRet("new", "None", 0)

Next ==
    \/ \E p \in TradePrices, size \in {-1, 1} : consume_trade(R(p), size)
    \/ \E o \in OrdersEx : submit_order(o)
    \/ \E id \in 0..(MaxExchangeOrders - 1) : cancel_order(id)
    \/ \E l \in LeveragesEx : set_leverage(R(l))

Spec == Init /\ [][Next]_vars

----------------------------------------------------------------------------
(* Claims about order_margin (SpecOM).                                      *)

RECURSIVE SumQty(_, _)
SumQty(orders, side) ==
    IF orders = <<>> THEN 0
    ELSE (IF Head(orders).side = side THEN Head(orders).quantity ELSE 0)
         + SumQty(Tail(orders), side)

RECURSIVE SumQtyPrice(_, _)
SumQtyPrice(orders, side) ==
    IF orders = <<>> THEN 0
    ELSE (IF Head(orders).side = side
          THEN Head(orders).quantity * Head(orders).limit_price ELSE 0)
         + SumQtyPrice(Tail(orders), side)

\* The maker fees of the orders of one side, each converted at its own price.
RECURSIVE SumMakerFees(_, _, _, _)
SumMakerFees(orders, side, ft, fee) ==
    IF orders = <<>> THEN Zero
    ELSE Add(IF Head(orders).side # side THEN Zero
             ELSE IF ft = "Linear"
                  THEN Mul(R(Head(orders).quantity * Head(orders).limit_price), fee)
                  ELSE Mul(Frac(Head(orders).quantity, Head(orders).limit_price), fee),
             SumMakerFees(Tail(orders), side, ft, fee))

IntMax(a, b) == IF a > b THEN a ELSE b

\* Exposure of a side that is left after offsetting the position.
NetBuyExposure(orders, pos) ==
    IntMax(0, SumQty(orders, "Buy") - (IF pos < 0 THEN -pos ELSE 0))
NetSellExposure(orders, pos) ==
    IntMax(0, SumQty(orders, "Sell") - (IF pos > 0 THEN pos ELSE 0))

\* The net order margin as the claim states it.
NetOrderMargin(orders, pos, ft, lev, fee) ==
    LET bsd == NetBuyExposure(orders, pos)
        ssd == NetSellExposure(orders, pos)
        side == IF ssd > bsd THEN "Sell" ELSE "Buy"
        d == IF ssd > bsd THEN ssd ELSE bsd
        qty == SumQty(orders, side)
        qp == SumQtyPrice(orders, side)
        \* d units at the size-weighted price qp / qty, in the margin currency
        notional == IF ft = "Linear" THEN Frac(d * qp, qty) ELSE Frac(d * qty, qp)
    IN  IF bsd = 0 /\ ssd = 0 THEN Zero
        ELSE Add(Div(notional, R(lev)), SumMakerFees(orders, side, ft, fee))

\* C6: order_margin is 0 when neither side has exposure left after offsetting
\* the position; otherwise it is the larger of the two net exposures (ties to
\* the buys) at that side's size-weighted limit price, divided by leverage,
\* plus the maker fees of all orders of the chosen side only.
Thm_C6 ==
    om.pc = "done" =>
        /\ om.before = NetOrderMargin(om.orders, om.pos_size, om.futures_type,
                                      om.leverage, om.fee_maker)
        /\ om.after = NetOrderMargin(Append(om.orders, om.cand), om.pos_size,
                                     om.futures_type, om.leverage, om.fee_maker)

\* A computed case with a position, a tie between the two net exposures, both
\* sides carrying fees and the sides priced differently.
Wit_C6 ==
    /\ om.pc = "done"
    /\ om.pos_size # 0
    /\ ~IsZero(om.fee_maker)
    /\ LET all == Append(om.orders, om.cand)
       IN  /\ NetBuyExposure(all, om.pos_size) = NetSellExposure(all, om.pos_size)
           /\ NetBuyExposure(all, om.pos_size) > 0
           /\ SumQty(all, "Sell") > 0
           /\ SumQtyPrice(all, "Buy") * SumQty(all, "Sell")
                # SumQtyPrice(all, "Sell") * SumQty(all, "Buy")
    /\ Gt(om.after, Zero)

\* The added order is on one side, every resting order is on the other side,
\* the account is flat and the resting quantity covers the added quantity.
EntirelyOffset ==
    /\ om.pos_size = 0
    /\ om.orders # <<>>
    /\ \A i \in 1..Len(om.orders) : om.orders[i].side # om.cand.side
    /\ SumQty(om.orders, om.orders[1].side) >= om.cand.quantity

\* C7: adding a limit order that is entirely offset by resting orders of the
\* opposite side, of equal or greater total quantity, leaves order_margin
\* unchanged, whatever the limit prices of the two sides.
CE_C7 == (om.pc = "done" /\ EntirelyOffset) => om.after = om.before

----------------------------------------------------------------------------
(* Claims about the Exchange (Spec).                                        *)

ExEntryPoints == {"submit_order", "cancel_order", "consume_trade"}

\* C1: after every return of submit_order, cancel_order and the market-data
\* update, available_balance equals wallet_balance - position_margin -
\* order_margin exactly.
CE_C1 ==
    exret.op \in ExEntryPoints =>
        exchange.margin.available_balance =
            Sub(Sub(exchange.margin.wallet_balance, exchange.margin.position_margin),
                exchange.margin.order_margin)

\* C3: wallet_balance >= 0 after every entry-point return, the return of a
\* market-data update that liquidated the position included.
CE_C3 ==
    exret.op \in ExEntryPoints => Ge(exchange.margin.wallet_balance, Zero)

\* C4: a submit_order that returns an OrderError changes nothing: active
\* orders, margin, position and the next order id are as before the call.
Thm_C4 ==
    [][(exret'.op = "submit_order" /\ exret'.result # "None")
          => exchange' = exchange]_vars

\* A rejected submit on an exchange that holds an order, reserved margin and
\* an id already given out.
Wit_C4 ==
    /\ exret.op = "submit_order"
    /\ exret.result \in {"MaxActiveOrders", "InvalidOrder", "NotEnoughAvailableBalance"}
    /\ exchange.orders_active # <<>>
    /\ exchange.next_order_id > 0
    /\ Gt(exchange.margin.order_margin, Zero)

----------------------------------------------------------------------------
(* Claims about Validator and Account (SpecAcc, SpecS4).                    *)

LimitOrdersAcc == {o \in OrdersAcc : o.otype = "Limit"}

\* C2: after every entry-point return that did not report a liquidation,
\* wallet_balance, position_margin, order_margin and available_balance are
\* all >= 0.
CE_C2 ==
    ~ret.liquidated =>
        /\ Ge(account.margin.wallet_balance, Zero)
        /\ Ge(account.margin.position_margin, Zero)
        /\ Ge(account.margin.order_margin, Zero)
        /\ Ge(available_balance(account), Zero)

\* C5: the number of resting limit orders never exceeds max_num_open_orders,
\* and a limit order submitted while the number of resting orders is at or
\* above the cap is rejected with MaxActiveOrders.
Thm_C5 ==
    /\ [](num_active_limit_orders(account) <= validator.max_num_open_orders)
    /\ [][\A o \in LimitOrdersAcc :
            (/\ num_active_limit_orders(account) >= validator.max_num_open_orders
             /\ SubmitOrder(o))
                => (ret'.result = "MaxActiveOrders" /\ account' = account)]_vars

\* A limit order was rejected at the cap.
Wit_C5 ==
    /\ ret.op = "submit_order"
    /\ ret.result = "MaxActiveOrders"
    /\ num_active_limit_orders(account) = validator.max_num_open_orders

\* The margin and maker fee the claim expects for a limit order of quantity
\* q at price p of which only the part `open` adds exposure.
MarginOfOpenPart(ft, open, q, p, lev, fee) ==
    IF open <= 0 THEN Zero
    ELSE Add(Div(convert(ft, R(open), R(p)), R(lev)),
             convert(ft, Mul(R(q), fee), R(p)))

\* The candidate is on the side that closes the position.
Closes(o, pos) == (pos > 0 /\ o.side = "Sell") \/ (pos < 0 /\ o.side = "Buy")

PassesCapAndPrice(o) ==
    /\ num_active_limit_orders(account) < validator.max_num_open_orders
    /\ ~(o.side = "Buy" /\ Gt(R(o.limit_price), validator.ask))
    /\ ~(o.side = "Sell" /\ Lt(R(o.limit_price), validator.bid))

\* C9: validate_limit_order charges needed_om - order_margin, where needed_om
\* is order_margin over all resting orders plus the candidate; a candidate
\* that passed the cap and price checks is rejected with
\* NotEnoughAvailableBalance exactly when that amount exceeds
\* available_balance (and so accepted when the two are equal).
CE_C9 ==
    \A o \in LimitOrdersAcc :
        PassesCapAndPrice(o) =>
            LET needed_om == order_margin(Append(account.active_limit_orders, o),
                                          account.position.size, engine.futures_type,
                                          account.position.leverage, validator.fee_maker)
                incremental == Sub(needed_om, account.margin.order_margin)
                val == validate_limit_order(validator, engine.futures_type, o, account)
            IN  /\ val.order_margin = incremental
                /\ (val.result = "NotEnoughAvailableBalance")
                       <=> Gt(incremental, available_balance(account))
                /\ (val.result = Ok) <=> ~Gt(incremental, available_balance(account))

\* The state of scenario S4 after update_state(99, 100) and the accepted buy
\* limits at 100 of quantity 5 and then 4.
AfterS4Buys ==
    /\ engine.step = 1 /\ engine.next_order_id = 2
    /\ validator.bid = R(99) /\ validator.ask = R(100)
    /\ account.position.size = 0
    /\ account.margin.wallet_balance = R(1000)
    /\ account.active_limit_orders =
           <<[LimitOrder("Buy", 100, 5) EXCEPT !.id = 0],
             [LimitOrder("Buy", 100, 4) EXCEPT !.id = 1]>>

\* C10: in scenario S4 the buy limits at 100 of quantity 5 and then 4 are
\* accepted with combined order_margin 900, and a following buy limit at 100
\* of quantity 1 is rejected with NotEnoughAvailableBalance.
CE_C10 ==
    AfterS4Buys =>
        /\ account.margin.order_margin = R(900)
        /\ validate_limit_order(validator, engine.futures_type,
                                LimitOrder("Buy", 100, 1), account).result
               = "NotEnoughAvailableBalance"


----------------------------------------------------------------------------
(* Claims about the price checks of limit orders (SpecScen).                *)

PriceErrors == {"LimitPriceLargerThanAsk", "LimitPriceLowerThanBid"}

\* C11: a limit order that reaches the price check (the cap is not reached)
\* is rejected with LimitPriceLargerThanAsk when it is a buy priced above
\* the ask and with LimitPriceLowerThanBid when it is a sell priced below
\* the bid, the account untouched; a buy priced exactly at the ask passes
\* the price check.
Thm_C11 ==
    [][\A o \in OrdersScen :
        (/\ num_active_limit_orders(account) < validator.max_num_open_orders
         /\ SubmitOrder(o))
            => /\ (o.side = "Buy" /\ Gt(R(o.limit_price), validator.ask))
                      => (ret'.result = "LimitPriceLargerThanAsk" /\ account' = account)
               /\ (o.side = "Sell" /\ Lt(R(o.limit_price), validator.bid))
                      => (ret'.result = "LimitPriceLowerThanBid" /\ account' = account)
               /\ (o.side = "Buy" /\ R(o.limit_price) = validator.ask)
                      => ret'.result \notin PriceErrors]_vars

\* A buy limit priced exactly at the ask 100 was accepted and rests.
Wit_C11 ==
    /\ ret.op = "submit_order" /\ ret.result = Ok
    /\ ret.order.side = "Buy" /\ R(ret.order.limit_price) = validator.ask
    /\ validator.ask = R(100)
    /\ IdIndex(account.active_limit_orders, ret.order.id) # 0

\* C12: a sell limit priced exactly at the bid is rejected with
\* LimitPriceLowerThanBid (S3: bid 99, ask 100, sell limit at 99 of
\* quantity 9): no accepted sell limit is priced at the bid.
CE_C12 ==
    (/\ ret.op = "submit_order" /\ ret.result = Ok
     /\ ret.order.otype = "Limit" /\ ret.order.side = "Sell")
        => R(ret.order.limit_price) # validator.bid


----------------------------------------------------------------------------
(* Claims about cancelling, triggering and filling limit orders.            *)

\* The last call accepted a limit order, which now rests.
LimitJustAccepted ==
    /\ ret.op = "submit_order" /\ ret.result = Ok
    /\ ret.order.otype = "Limit"

\* C13: submitting a limit order L and cancelling L in the next call returns
\* order_margin and available_balance exactly to their values before the
\* submit (the values after the submit less, respectively plus, the
\* incremental margin the submit charged), from every reachable state.
CE_C13 ==
    [][(LimitJustAccepted /\ CancelOrder(ret.order.id))
          => /\ account'.margin.order_margin
                    = Sub(account.margin.order_margin, ret.order_margin)
             /\ available_balance(account')
                    = Add(available_balance(account), ret.order_margin)]_vars


SeqHas(seq, x) == \E i \in 1..Len(seq) : seq[i] = x

\* The signed quantity of a sequence of orders: buys count up, sells down.
RECURSIVE SignedQty(_)
SignedQty(orders) ==
    IF orders = <<>> THEN 0
    ELSE (IF Head(orders).side = "Buy" THEN Head(orders).quantity
          ELSE -Head(orders).quantity) + SignedQty(Tail(orders))

\* The claim's trigger rule for a resting order and the extremes of a snapshot.
CrossedBy(o, high, low) ==
    \/ o.side = "Buy" /\ Le(low, R(o.limit_price))
    \/ o.side = "Sell" /\ Ge(high, R(o.limit_price))

\* C14: in an update_state that does not liquidate, a resting buy limit at p
\* is executed iff low <= p and a resting sell limit at p iff high >= p;
\* every executed order was resting, is filled completely (the position
\* moves by the signed sum of the executed quantities, and a single fill on
\* a flat account enters at the order's limit price), leaves the resting
\* set and is in the executed list; every other order stays resting.
Thm_C14 ==
    [][\A s \in SnapshotsScen :
        (UpdateState(s[1], s[2], s[3], s[4]) /\ ~ret'.liquidated)
            => /\ \A i \in 1..Len(account.active_limit_orders) :
                    LET o == account.active_limit_orders[i]
                    IN  /\ CrossedBy(o, s[3], s[4]) <=> SeqHas(ret'.executed, o)
                        /\ CrossedBy(o, s[3], s[4])
                               <=> ~SeqHas(account'.active_limit_orders, o)
               /\ \A j \in 1..Len(ret'.executed) :
                    SeqHas(account.active_limit_orders, ret'.executed[j])
               /\ Len(account'.active_limit_orders) + Len(ret'.executed)
                      = Len(account.active_limit_orders)
               /\ account'.position.size
                      = account.position.size + SignedQty(ret'.executed)
               /\ (account.position.size = 0 /\ Len(ret'.executed) = 1)
                      => account'.position.entry_price
                             = R(ret'.executed[1].limit_price)]_vars

\* An update_state executed one resting order and left another resting.
Wit_C14 ==
    /\ ret.op = "update_state" /\ ~ret.liquidated
    /\ Len(ret.executed) = 1
    /\ Len(account.active_limit_orders) = 1
    /\ ~CrossedBy(account.active_limit_orders[1], validator.ask, validator.bid)
    /\ account.position.size = SignedQty(ret.executed)


\* Scenario S1 has run: update_state(99, 100), buy limit 5 @98 accepted,
\* update_state(96, 97) executed it; leverage 1, no fees.
S1Done ==
    /\ account.position.leverage = 1 /\ validator.fee_maker = Zero
    /\ engine.step = 2 /\ engine.next_order_id = 1
    /\ ret.op = "update_state"
    /\ ret.executed = <<[LimitOrder("Buy", 98, 5) EXCEPT !.id = 0]>>

\* Scenario S2 has run: update_state(99, 100), sell limit 9 @100 accepted,
\* update_state(101, 102) executed it; leverage 1, no fees.
S2Done ==
    /\ account.position.leverage = 1 /\ validator.fee_maker = Zero
    /\ engine.step = 2 /\ engine.next_order_id = 1
    /\ ret.op = "update_state"
    /\ ret.executed = <<[LimitOrder("Sell", 100, 9) EXCEPT !.id = 0]>>

\* C15: when one limit order of quantity q at price p fills on a flat
\* account with leverage L (linear futures), the position becomes +q for a
\* buy and -q for a sell with entry_price p and position_margin q*p/L, the
\* margin reserved for the order is released (order_margin is that of the
\* orders still resting, 0 when none rests), wallet_balance decreases by
\* exactly q*p*fee_maker and available_balance is wallet_balance -
\* position_margin - order_margin; S1 ends with size 5, entry 98, margin
\* 490, available 510 and S2 with size -9, entry 100, margin 900,
\* available 100.
Thm_C15 ==
    /\ [][\A s \in SnapshotsScen :
            (/\ UpdateState(s[1], s[2], s[3], s[4]) /\ ~ret'.liquidated
             /\ account.position.size = 0 /\ Len(ret'.executed) = 1)
                => LET o == ret'.executed[1]
                       q == R(o.quantity)
                       p == R(o.limit_price)
                       L == R(account.position.leverage)
                       m == account'.margin
                   IN  /\ account'.position.size
                              = IF o.side = "Buy" THEN o.quantity ELSE -o.quantity
                       /\ account'.position.entry_price = p
                       /\ m.position_margin = Div(Mul(q, p), L)
                       /\ m.order_margin
                              = order_margin(account'.active_limit_orders, 0, "Linear",
                                             account.position.leverage,
                                             validator.fee_maker)
                       /\ account'.active_limit_orders = <<>> => m.order_margin = Zero
                       /\ m.wallet_balance
                              = Sub(account.margin.wallet_balance,
                                    Mul(Mul(q, p), validator.fee_maker))
                       /\ available_balance(account')
                              = Sub(Sub(m.wallet_balance, m.position_margin),
                                    m.order_margin)]_vars
    /\ [](S1Done => /\ account.position.size = 5
                    /\ account.position.entry_price = R(98)
                    /\ account.margin.position_margin = R(490)
                    /\ available_balance(account) = R(510))
    /\ [](S2Done => /\ account.position.size = -9
                    /\ account.position.entry_price = R(100)
                    /\ account.margin.position_margin = R(900)
                    /\ available_balance(account) = R(100))

\* A sell limit filled on a flat account with leverage 2 and a maker fee:
\* the wallet paid the fee and nothing rests.
Wit_C15 ==
    /\ ret.op = "update_state" /\ Len(ret.executed) = 1
    /\ ret.executed[1].side = "Sell"
    /\ account.position.leverage = 2
    /\ account.position.size = -ret.executed[1].quantity
    /\ account.active_limit_orders = <<>>
    /\ Lt(account.margin.wallet_balance, R(1000))
    /\ Gt(account.margin.position_margin, Zero)


----------------------------------------------------------------------------
(* Claims about the executed orders and the liquidation of the Exchange.    *)

\* C16: an executed order is executed exactly once: after the call in which
\* it fills (it is marked done) it is no longer among the active orders, so
\* that no later market-data update can execute it again.
CE_C16 ==
    \A i \in 1..Len(exchange.orders_active) : ~exchange.orders_active[i].done


\* C17: a market-data update that finds the liquidation condition true
\* reports the liquidation and leaves the position size 0, position_margin
\* 0, no resting order and order_margin 0.
CE_C17 ==
    (exret.op = "consume_trade" /\ exret.result = "true")
        => /\ exchange.position.size = Zero
           /\ exchange.margin.position_margin = Zero
           /\ exchange.orders_active = <<>>
           /\ exchange.margin.order_margin = Zero


\* The Exchange marked to market at a trade: the quote of the trade stored,
\* unrealized_pnl and position_margin recomputed as consume_trade does.
MarkedAt(x, price, size) ==
    LET x0 == IF x.init THEN [x EXCEPT !.init = FALSE, !.bid = price, !.ask = price]
              ELSE x
        x1 == IF size > 0 THEN [x0 EXCEPT !.ask = price] ELSE [x0 EXCEPT !.bid = price]
        x2 == IF IsZero(x1.position.size) THEN x1 ELSE MarkPosition(x1)
    IN  [x2 EXCEPT !.margin.position_margin =
            Add(Div(x2.position.value, x2.position.leverage),
                x2.position.unrealized_pnl)]

\* C18: at every market-data update the two statements of the liquidation
\* trigger agree, wallet_balance - position_margin - order_margin < 0 iff
\* position_margin + order_margin > wallet_balance + unrealized_pnl at the
\* new snapshot, and the update reports a liquidation exactly when that
\* condition holds.
CE_C18 ==
    [][\A p \in TradePrices, size \in {-1, 1} :
        consume_trade(R(p), size)
            => LET x == MarkedAt(exchange, R(p), size)
                   m == x.margin
                   committed == Add(m.position_margin, m.order_margin)
                   negative == Lt(Sub(m.wallet_balance, committed), Zero)
                   exceeds == Gt(committed,
                                 Add(m.wallet_balance, x.position.unrealized_pnl))
               IN  /\ negative <=> exceeds
                   /\ (exret'.result = "true") <=> exceeds]_vars


----------------------------------------------------------------------------
(* Claims about the cost and the validation of market orders (SpecAcc).     *)

MarketOrdersAcc == {o \in OrdersAcc : o.otype = "Market"}

IntMin(a, b) == IF a < b THEN a ELSE b

\* The quantities <<debit, credit>> of a market order as the claim states
\* them, before leverage and conversion.
MarketCostQuantities(o, acc) ==
    LET pos == acc.position.size
        q == o.quantity
    IN  IF pos = 0
        THEN <<IntMin(q, IF o.side = "Buy" THEN acc.open_limit_sell_size
                         ELSE acc.open_limit_buy_size), q>>
        ELSE IF Closes(o, pos)
        THEN <<IntMin(q, Abs(pos)), IntMax(0, q - Abs(pos))>>
        ELSE <<0, q>>

\* The margin-currency amount of a quantity over leverage at a price.
MarginAt(ft, qty, lev, price) ==
    IF ft = "Linear" THEN Div(Mul(R(qty), price), R(lev))
    ELSE Div(Div(R(qty), price), R(lev))

\* The taker fee of a quantity at a price, in the margin currency.
TakerFeeAt(ft, qty, fee, price) ==
    IF ft = "Linear" THEN Mul(Mul(R(qty), price), fee)
    ELSE Mul(Div(R(qty), price), fee)

\* C19: order_cost_market returns debit and credit as the claim's case
\* table gives them (flat: min(qty, opposite open limit size) and qty;
\* closing side: min(qty, |pos|) and max(0, qty - |pos|); same side: 0 and
\* qty), each over leverage and converted at the ask for a buy and the bid
\* for a sell, with the taker fee of the full quantity added to credit only.
Thm_C19 ==
    Gt(validator.bid, Zero) =>
        \A o \in MarketOrdersAcc :
            LET ft == engine.futures_type
                lev == account.position.leverage
                price == IF o.side = "Buy" THEN validator.ask ELSE validator.bid
                dc == MarketCostQuantities(o, account)
            IN  order_cost_market(validator, ft, o, account)
                    = <<MarginAt(ft, dc[1], lev, price),
                        Add(MarginAt(ft, dc[2], lev, price),
                            TakerFeeAt(ft, o.quantity, validator.fee_taker, price))>>

\* A flat account with a resting sell limit, a snapshot stored: a market buy
\* has a debit; and a position was opened before.
Wit_C19 ==
    /\ Gt(validator.bid, Zero)
    /\ account.position.size = 0
    /\ account.open_limit_sell_size > 0
    /\ Ge(account.margin.wallet_balance, Zero)
    /\ Lt(account.margin.wallet_balance, StartingBalance(engine.futures_type))
    /\ Gt(order_cost_market(validator, engine.futures_type, MarketOrder("Buy", 2),
                            account)[1], Zero)


\* C20: a market order is rejected with NotEnoughAvailableBalance exactly
\* when credit > available_balance + debit and accepted otherwise: an order
\* that only reduces the position needs just its taker fee, and one that
\* reverses it is accepted as long as the margin of the newly opened part
\* plus the fee fits into available_balance plus the margin of the closed
\* part at the taker price.
Thm_C20 ==
    [][\A o \in MarketOrdersAcc :
        SubmitOrder(o)
            => LET ft == engine.futures_type
                   lev == account.position.leverage
                   pos == account.position.size
                   q == o.quantity
                   price == IF o.side = "Buy" THEN validator.ask ELSE validator.bid
                   fee == TakerFeeAt(ft, q, validator.fee_taker, price)
                   dc == MarketCostQuantities(o, account)
                   debit == MarginAt(ft, dc[1], lev, price)
                   credit == Add(MarginAt(ft, dc[2], lev, price), fee)
                   avail == available_balance(account)
               IN  /\ ret'.result \in {Ok, "NotEnoughAvailableBalance"}
                   /\ (ret'.result = "NotEnoughAvailableBalance")
                          <=> Gt(credit, Add(avail, debit))
                   /\ (Closes(o, pos) /\ q <= Abs(pos))
                          => ((ret'.result = Ok)
                                 <=> Le(fee, Add(avail, MarginAt(ft, q, lev, price))))
                   /\ (Closes(o, pos) /\ q > Abs(pos))
                          => ((ret'.result = Ok)
                                 <=> Le(Add(MarginAt(ft, q - Abs(pos), lev, price), fee),
                                        Add(avail, MarginAt(ft, Abs(pos), lev, price))))]_vars

\* A market order that reversed the position was accepted: the position has
\* the side of the order and is smaller than the order.
Wit_C20 ==
    /\ ret.op = "submit_order" /\ ret.result = Ok
    /\ ret.order.otype = "Market"
    /\ account.position.size # 0
    /\ (account.position.size > 0) <=> (ret.order.side = "Buy")
    /\ Abs(account.position.size) < ret.order.quantity


----------------------------------------------------------------------------
(* Claims about market executions and the position (SpecAcc).               *)

\* The profit of closing q units of a position of the given sign, entered at
\* e, at the price x, in the margin currency.
ClosingPnl(ft, long, e, x, q) ==
    IF ft = "Linear"
    THEN IF long THEN Mul(R(q), Sub(x, e)) ELSE Mul(R(q), Sub(e, x))
    ELSE IF long THEN Mul(R(q), Sub(Div(One, e), Div(One, x)))
         ELSE Mul(R(q), Sub(Div(One, x), Div(One, e)))

\* The last call accepted the market order o.
MarketAccepted(o) == SubmitOrder(o) /\ ret'.result = Ok

SellBack(q) ==
    LET sell == MarketOrder("Sell", q)
        ft == engine'.futures_type
    IN  [accepted |-> /\ engine'.next_order_id < MaxOrderIds
                      /\ validate_market_order(validator', ft, sell, account').result = Ok,
         account |-> execute_market_order(account', validator', ft, sell)]

RoundTripWallet(q) ==
    Sub(Add(account.margin.wallet_balance,
            Mul(R(q), Sub(validator'.bid, validator'.ask))),
        Add(TakerFeeAt("Linear", q, validator'.fee_taker, validator'.ask),
            TakerFeeAt("Linear", q, validator'.fee_taker, validator'.bid)))

----------------------------------------------------------------------------
(* Claims about the Exchange after executions (Spec).                       *)

\* C24: after every execution (an order executed by check_orders, a
\* liquidation close) position_margin is the notional of the current
\* position at entry_price divided by the leverage, and 0 when flat.
CE_C24 ==
    [][exchange'.position.size # exchange.position.size
          => LET pos == exchange'.position
             IN  exchange'.margin.position_margin
                    = IF IsZero(pos.size) THEN Zero
                      ELSE Div(Div(RAbs(pos.size), pos.entry_price), pos.leverage)]_vars


----------------------------------------------------------------------------
(* Claims about what a limit submission and the fills leave (SpecAcc).      *)

\* C25: a successful limit submit changes only the resting set, the order-id
\* counter, order_margin (up by the incremental margin returned) and
\* available_balance (down by the same); the position's size and entry
\* price, position_margin, wallet_balance and the quotes are unchanged.
Thm_C25 ==
    [][\A o \in LimitOrdersAcc :
        (SubmitOrder(o) /\ ret'.result = Ok)
            => /\ account'.position = account.position
               /\ account'.margin.wallet_balance = account.margin.wallet_balance
               /\ account'.margin.position_margin = account.margin.position_margin
               /\ account'.margin.order_margin
                      = Add(account.margin.order_margin, ret'.order_margin)
               /\ available_balance(account')
                      = Sub(available_balance(account), ret'.order_margin)
               /\ engine' = [engine EXCEPT !.next_order_id = @ + 1]
               /\ validator' = validator
               /\ SeqHas(account'.active_limit_orders, ret'.order)
               /\ Len(account'.active_limit_orders)
                      = Len(account.active_limit_orders) + 1]_vars

\* A limit order was accepted on an account that holds a position, and it
\* was charged a margin.
Wit_C25 ==
    /\ LimitJustAccepted
    /\ account.position.size # 0
    /\ Gt(ret.order_margin, Zero)
    /\ Gt(account.margin.position_margin, Zero)


\* C26: every accepted order receives its id once, the value of the counter
\* at its submission; the counter only grows, so ids are pairwise distinct
\* and increase in submission order; the active orders, iterated in insertion
\* order, have strictly increasing ids, also after cancels and executions.
Thm_C26 ==
    /\ [](\A i, j \in 1..Len(exchange.orders_active) :
            i < j => exchange.orders_active[i].id < exchange.orders_active[j].id)
    /\ [](\A i \in 1..Len(exchange.orders_active) :
            exchange.orders_active[i].id < exchange.next_order_id)
    /\ [][/\ exchange'.next_order_id >= exchange.next_order_id
          /\ \A i \in 1..Len(exchange'.orders_active) :
                LET id == exchange'.orders_active[i].id
                IN  \/ \E k \in 1..Len(exchange.orders_active) :
                          exchange.orders_active[k].id = id
                    \/ /\ id = exchange.next_order_id
                       /\ exchange'.next_order_id = id + 1
                       /\ i = Len(exchange'.orders_active)
                       /\ exret'.op = "submit_order" /\ exret'.result = "None"]_vars

\* Two orders were accepted one after the other and are both active, with
\* the ids 0 and 1 in that order.
Wit_C26 ==
    /\ exret.op = "submit_order" /\ exret.result = "None"
    /\ Len(exchange.orders_active) = 2
    /\ exchange.orders_active[1].id = 0
    /\ exchange.orders_active[2].id = 1
    /\ exchange.next_order_id = 2


\* C27: the cached open_limit_buy_size is the sum of the quantities of the
\* resting buy limit orders and open_limit_sell_size that of the resting
\* sells, after every sequence of submits, cancels, limit fills and
\* liquidations.
Thm_C27 ==
    /\ account.open_limit_buy_size = SumQty(account.active_limit_orders, "Buy")
    /\ account.open_limit_sell_size = SumQty(account.active_limit_orders, "Sell")

\* A market-data update filled one of two resting orders; a sell still rests.
Wit_C27 ==
    /\ ret.op = "update_state"
    /\ Len(ret.executed) = 1
    /\ Len(account.active_limit_orders) = 1
    /\ account.open_limit_sell_size > 0


----------------------------------------------------------------------------
(* Claims about the order of executions (SpecScen).                         *)

\* The orders of a sequence that the extremes trigger, in the sequence's order.
RECURSIVE CrossedOf(_, _, _)
CrossedOf(orders, high, low) ==
    IF orders = <<>> THEN <<>>
    ELSE (IF CrossedBy(Head(orders), high, low) THEN <<Head(orders)>> ELSE <<>>)
         \o CrossedOf(Tail(orders), high, low)

\* C28: within one update_state the executed list holds the triggered orders
\* in the iteration order of the resting orders at entry, which is the order
\* of submission (ascending id), whatever their prices and sides.
Thm_C28 ==
    [][\A s \in SnapshotsScen :
        (UpdateState(s[1], s[2], s[3], s[4]) /\ ~ret'.liquidated)
            => /\ ret'.executed = CrossedOf(account.active_limit_orders, s[3], s[4])
               /\ \A i, j \in 1..Len(account.active_limit_orders) :
                     i < j => account.active_limit_orders[i].id
                                 < account.active_limit_orders[j].id
               /\ \A i, j \in 1..Len(ret'.executed) :
                     i < j => ret'.executed[i].id < ret'.executed[j].id]_vars

\* One update executed two buys; the one submitted first has the lower
\* price and is reported first.
Wit_C28 ==
    /\ ret.op = "update_state" /\ ~ret.liquidated
    /\ Len(ret.executed) = 2
    /\ ret.executed[1].side = "Buy" /\ ret.executed[2].side = "Buy"
    /\ ret.executed[1].id < ret.executed[2].id
    /\ ret.executed[1].limit_price < ret.executed[2].limit_price


----------------------------------------------------------------------------
(* Claims about determinism (Spec).                                         *)

\* C29: two runs fed the same sequence of calls end in identical state; no
\* stored field, the order timestamp included, depends on the wall clock:
\* what an accepted submit_order stores is the same whatever the clock reads
\* during the call.
CE_C29 ==
    [][\A o \in OrdersEx :
        (submit_order(o) /\ exret'.result = "None")
            => \A now \in Clock :
                 exchange'.orders_active[Len(exchange'.orders_active)].timestamp
                    = now]_vars


----------------------------------------------------------------------------
(* Claims about stacking resting orders (SpecScen).                         *)

MaxAlternations == 12

\* Up to n limit submissions of the quantity q, alternating between the
\* sides from `side` on, buys at pb and sells at ps, each validated and, when
\* accepted, numbered and stored as submit_order does: the result of the
\* first rejection ("None" when all n were accepted), the number accepted
\* before it, and whether order_margin <= wallet_balance - position_margin
\* held after each accepted one.
RECURSIVE AlternatingRun(_, _, _, _, _, _, _, _, _)
AlternatingRun(acc, v, ft, next_id, side, q, pb, ps, n) ==
    IF n = 0 THEN [result |-> "None", accepted |-> 0, margins_ok |-> TRUE]
    ELSE LET o == LimitOrder(side, IF side = "Buy" THEN pb ELSE ps, q)
             val == validate_limit_order(v, ft, o, acc)
             acc1 == append_limit_order(acc, [o EXCEPT !.id = next_id],
                                        val.order_margin)
             rest == AlternatingRun(acc1, v, ft, next_id + 1,
                                    IF side = "Buy" THEN "Sell" ELSE "Buy",
                                    q, pb, ps, n - 1)
         IN  IF val.result # Ok
             THEN [result |-> val.result, accepted |-> 0, margins_ok |-> TRUE]
             ELSE [result |-> rest.result,
                   accepted |-> rest.accepted + 1,
                   margins_ok |->
                       /\ rest.margins_ok
                       /\ Le(acc1.margin.order_margin,
                             Sub(acc1.margin.wallet_balance,
                                 acc1.margin.position_margin))]

\* The account is flat and holds no resting order, and the book lets a buy
\* at pb and a sell at ps pass the price checks.
StackingStart(pb, ps) ==
    /\ account.position.size = 0
    /\ account.active_limit_orders = <<>>
    /\ Le(R(pb), validator.ask)
    /\ Ge(R(ps), validator.bid)

\* C30: resting buys and sells cannot be stacked without bound: from a flat
\* account, every sequence of alternating buy and sell limit submissions of
\* one quantity meets a rejection for lack of available balance, and after
\* every accepted submission order_margin <= wallet_balance -
\* position_margin.
Thm_C30 ==
    /\ LimitJustAccepted
          => Le(account.margin.order_margin,
                Sub(account.margin.wallet_balance, account.margin.position_margin))
    /\ \A q \in QtysScen, pb \in PricesScen, ps \in PricesScen, first \in Sides :
          StackingStart(pb, ps)
            => LET run == AlternatingRun(account, validator, engine.futures_type,
                                         engine.next_order_id, first, q, pb, ps,
                                         MaxAlternations)
               IN  /\ run.result = "NotEnoughAvailableBalance"
                   /\ run.margins_ok

\* From the flat account with the book at 99 / 100, buys at 99 and sells at
\* 100 of quantity 5 are accepted alternately at least four times before the
\* balance stops them.
Wit_C30 ==
    /\ StackingStart(99, 100)
    /\ validator.bid = R(99) /\ validator.ask = R(100)
    /\ LET run == AlternatingRun(account, validator, engine.futures_type,
                                 engine.next_order_id, "Buy", 5, 99, 100,
                                 MaxAlternations)
       IN  /\ run.accepted >= 4
           /\ run.result = "NotEnoughAvailableBalance"


----------------------------------------------------------------------------
(* Claims about order_margin and the leverage (SpecOM).                     *)

MaxLeverage == 5
MaxStacked == 3

\* The orders with every quantity multiplied by l.
ScaleQty(orders, l) ==
    [i \in 1..Len(orders) |-> [orders[i] EXCEPT !.quantity = @ * l]]

\* n orders of one side, each of quantity 100 * l at the price 100.
Stacked(n, side, l) ==
    [i \in 1..n |-> [id |-> 0, side |-> side, limit_price |-> 100,
                     quantity |-> 100 * l]]

\* C31 as stated: order_margin scales inversely with the leverage: for l in
\* 1..5 the margin, at leverage l, of the orders with their quantities
\* multiplied by l is the margin of the orders at leverage 1.
CE_C31 ==
    (om.pc = "done" /\ om.pos_size = 0)
        => \A l \in 1..MaxLeverage :
             LET all == Append(om.orders, om.cand)
             IN  order_margin(ScaleQty(all, l), 0, om.futures_type, l, om.fee_maker)
                    = order_margin(all, 0, om.futures_type, 1, om.fee_maker)

\* C31 amended: the same without maker fee, and n same-side inverse-futures
\* orders of quantity 100 * l at price 100 need the order margin n.
Thm_C31 ==
    (om.pc = "done" /\ om.pos_size = 0 /\ IsZero(om.fee_maker))
        => /\ \A l \in 1..MaxLeverage :
                LET all == Append(om.orders, om.cand)
                IN  order_margin(ScaleQty(all, l), 0, om.futures_type, l, om.fee_maker)
                       = order_margin(all, 0, om.futures_type, 1, om.fee_maker)
           /\ \A l \in 1..MaxLeverage, n \in 1..MaxStacked, side \in Sides :
                order_margin(Stacked(n, side, l), 0, "Inverse", l, om.fee_maker) = R(n)

\* A computed case without position and fee whose orders are on both sides
\* at different prices and need a margin.
Wit_C31 ==
    /\ om.pc = "done" /\ om.pos_size = 0 /\ IsZero(om.fee_maker)
    /\ om.futures_type = "Inverse"
    /\ LET all == Append(om.orders, om.cand)
       IN  /\ SumQty(all, "Buy") > SumQty(all, "Sell")
           /\ SumQty(all, "Sell") > 0
           /\ order_margin(ScaleQty(all, MaxLeverage), 0, "Inverse", MaxLeverage, Zero)
                 = om.after
    /\ Gt(om.after, Zero)


----------------------------------------------------------------------------
(* Claims about stop orders of the Exchange (Spec).                         *)

StopOrdersEx == {o \in OrdersEx : o.order_type = "StopMarket"}

\* C32: validate_stop_market_order accepts a Buy stop order exactly when its
\* trigger price is strictly above the ask and a Sell stop order exactly when
\* it is strictly below the bid; a trigger price equal to the ask (Buy) or
\* the bid (Sell) is invalid.  Seen through submit_order below the cap of
\* active orders, which reports InvalidOrder for an invalid order.
Thm_C32 ==
    [][\A o \in StopOrdersEx :
        (/\ Len(exchange.orders_active) < exchange.config.max_active_orders
         /\ submit_order(o))
            => LET above == Gt(o.price, exchange.ask)
                   below == Lt(o.price, exchange.bid)
               IN  /\ (o.side = "Buy" /\ above) => exret'.result # "InvalidOrder"
                   /\ (o.side = "Buy" /\ ~above) => exret'.result = "InvalidOrder"
                   /\ (o.side = "Sell" /\ below) => exret'.result # "InvalidOrder"
                   /\ (o.side = "Sell" /\ ~below) => exret'.result = "InvalidOrder"
                   /\ (o.price = (IF o.side = "Buy" THEN exchange.ask ELSE exchange.bid))
                         => exret'.result = "InvalidOrder"]_vars

\* With bid and ask both at 4 and no active order a submit was rejected as
\* invalid; a Buy stop at 4 is invalid there and a Sell stop at 2 is valid.
Wit_C32 ==
    /\ exret.op = "submit_order" /\ exret.result = "InvalidOrder"
    /\ exchange.orders_active = <<>>
    /\ exchange.ask = R(4) /\ exchange.bid = R(4)
    /\ ~validate_stop_market_order(exchange, ExOrder("StopMarket", "Buy", 4, 1))
    /\ validate_stop_market_order(exchange, ExOrder("StopMarket", "Sell", 2, 1))


----------------------------------------------------------------------------
(* Claims about the stored order margin (SpecAcc).                          *)

\* C33: after every entry-point return the stored order_margin equals the net
\* order margin evaluated on the current resting orders and the current
\* position, also after a market order or a limit fill has changed the
\* position size while other limit orders remain resting.
CE_C33 ==
    account.margin.order_margin
        = NetOrderMargin(account.active_limit_orders, account.position.size,
                         engine.futures_type, account.position.leverage,
                         validator.fee_maker)


\* C34: the incremental margin computed for a candidate limit order covers
\* every resting order plus the candidate, whatever id the candidate carries:
\* a resting order whose id equals the candidate's (the default id 0 and the
\* first order numbered 0) is still counted in needed_om.
CE_C34 ==
    \A o \in LimitOrdersAcc :
        limit_order_margin_cost(validator, engine.futures_type, o, account)
            = Sub(order_margin(account.active_limit_orders \o <<o>>,
                               account.position.size, engine.futures_type,
                               account.position.leverage, validator.fee_maker),
                  account.margin.order_margin)

----------------------------------------------------------------------------
(* Claims about the order of the limit validation checks (SpecAcc)          *)

CapReached == num_active_limit_orders(account) >= validator.max_num_open_orders

Marketable(o) ==
    \/ o.side = "Buy" /\ Gt(R(o.limit_price), validator.ask)
    \/ o.side = "Sell" /\ Lt(R(o.limit_price), validator.bid)

PriceErrorOf(o) ==
    IF o.side = "Buy" THEN "LimitPriceLargerThanAsk" ELSE "LimitPriceLowerThanBid"

ExceedsBalance(o) ==
    Gt(limit_order_margin_cost(validator, engine.futures_type, o, account),
       available_balance(account))

\* C35: limit validation checks in a fixed order: a submitted limit order is
\* rejected with MaxActiveOrders if the cap is reached, whatever else it
\* violates; otherwise with the price error of its side if its price is
\* marketable; and with NotEnoughAvailableBalance only if both earlier checks
\* pass and the incremental margin exceeds the available balance.
Thm_C35 ==
    [][\A o \in LimitOrdersAcc :
          SubmitOrder(o) =>
              /\ CapReached => ret'.result = "MaxActiveOrders"
              /\ (~CapReached /\ Marketable(o)) => ret'.result = PriceErrorOf(o)
              /\ ret'.result = "NotEnoughAvailableBalance"
                     <=> (~CapReached /\ ~Marketable(o) /\ ExceedsBalance(o))]_vars

\* A rejection with MaxActiveOrders of an order that is also marketable and
\* also exceeds the available balance.
Wit_C35 ==
    /\ ret.op = "submit_order" /\ ret.result = "MaxActiveOrders"
    /\ engine.next_order_id < MaxOrderIds
    /\ CapReached
    /\ \E o \in LimitOrdersAcc : Marketable(o) /\ ExceedsBalance(o)

----------------------------------------------------------------------------
(* Claims about cancel_order of the Exchange (Spec)                         *)

\* The sequence without its i-th element.
WithoutIndex(seq, i) == SubSeq(seq, 1, i - 1) \o SubSeq(seq, i + 1, Len(seq))

\* Everything of the exchange but the active orders.
ExchangeFrame(x) == [f \in (DOMAIN x) \ {"orders_active"} |-> x[f]]

\* C36: cancel_order with an id that is not among the active orders returns
\* None and changes nothing; with an active id it returns that order and
\* removes exactly that one order: all other active orders stay, in their
\* previous relative order, and nothing else of the exchange changes.
Thm_C36 ==
    [][\A id \in 0..MaxExchangeOrders :
          cancel_order(id) =>
              LET orders == exchange.orders_active
              IN  IF \A i \in 1..Len(orders) : orders[i].id # id
                  THEN /\ exret'.result = "None"
                       /\ exchange' = exchange
                  ELSE /\ exret'.result = "Some"
                       /\ exret'.id = id
                       /\ \E i \in 1..Len(orders) :
                             /\ orders[i].id = exret'.id
                             /\ exchange'.orders_active = WithoutIndex(orders, i)
                       /\ ExchangeFrame(exchange') = ExchangeFrame(exchange)]_vars

\* A cancel that returned the first of two active orders and left the other.
Wit_C36 ==
    /\ exret.op = "cancel_order" /\ exret.result = "Some"
    /\ Len(exchange.orders_active) = 1
    /\ exret.id < exchange.orders_active[1].id

----------------------------------------------------------------------------
(* Claims about the position size and the wallet over executions (SpecAcc)  *)

\* The orders the call that has just returned executed: the accepted market
\* order of a submit, the limit orders filled by an update_state.
ExecutedBy(r) ==
    IF r.op = "submit_order" /\ r.result = Ok /\ r.order.otype = "Market"
    THEN <<r.order>>
    ELSE IF r.op = "update_state" THEN r.executed
    ELSE <<>>

Fill(side, quantity, price, rate) ==
    [side |-> side, quantity |-> quantity, price |-> price, rate |-> rate]

\* The fills of the step that leads to the primed state: the position closed
\* by a liquidation, the accepted market order of a submit, the limit orders
\* filled by an update_state, each at its price and with its fee rate.
FillsOfStep ==
    LET size == account.position.size
    IN  IF ret'.liquidated
        THEN IF size = 0 THEN <<>>
             ELSE <<Fill(IF size > 0 THEN "Sell" ELSE "Buy", Abs(size),
                         IF size > 0 THEN validator'.bid ELSE validator'.ask,
                         validator.fee_taker)>>
        ELSE IF ret'.op = "submit_order" /\ ret'.result = Ok
                /\ ret'.order.otype = "Market"
        THEN <<Fill(ret'.order.side, ret'.order.quantity,
                    IF ret'.order.side = "Buy" THEN validator.ask ELSE validator.bid,
                    validator.fee_taker)>>
        ELSE IF ret'.op = "update_state"
        THEN [i \in 1..Len(ret'.executed) |->
                 Fill(ret'.executed[i].side, ret'.executed[i].quantity,
                      R(ret'.executed[i].limit_price), validator.fee_maker)]
        ELSE <<>>

\* The wallet after the fills, applied in order to a position of the given
\* size and entry price: each adds the profit of the part of the position it
\* closes and takes its fee.
RECURSIVE WalletAfterFills(_, _, _, _, _)
WalletAfterFills(ft, wallet, size, entry, fills) ==
    IF fills = <<>> THEN wallet
    ELSE LET f == Head(fills)
             q == f.quantity
             closes == (size > 0 /\ f.side = "Sell") \/ (size < 0 /\ f.side = "Buy")
             closed == IF closes THEN IntMin(q, Abs(size)) ELSE 0
             realized == IF closed = 0 THEN Zero
                         ELSE ClosingPnl(ft, size > 0, entry, f.price, closed)
             fee == TakerFeeAt(ft, q, f.rate, f.price)
             size1 == IF f.side = "Buy" THEN size + q ELSE size - q
             entry1 == IF ~closes
                       THEN Div(Add(Mul(R(Abs(size)), entry), Mul(R(q), f.price)),
                                R(Abs(size) + q))
                       ELSE IF q > Abs(size) THEN f.price ELSE entry
         IN  WalletAfterFills(ft, Sub(Add(wallet, realized), fee), size1, entry1,
                              Tail(fills))

\* On the engine and the Account of the specification the wallet follows
\* the fills: it is the starting balance before the first call, and every
\* call changes it by exactly the realized profit of the executions of that
\* call less their fees.
WalletFollowsFillsAcc ==
    /\ [](ret = NoRet =>
            account.margin.wallet_balance = StartingBalance(engine.futures_type))
    /\ [][account'.margin.wallet_balance
              = WalletAfterFills(engine.futures_type, account.margin.wallet_balance,
                                 account.position.size, account.position.entry_price,
                                 FillsOfStep)]_vars

----------------------------------------------------------------------------
(* Claims about the wallet of the Exchange (Spec)                           *)

\* The exchange as consume_trade hands it to check_orders: the quote moved
\* by the trade, the position marked and the margins refreshed.
QuotedExchange(price, size) ==
    LET x0 == IF exchange.init
              THEN [exchange EXCEPT !.init = FALSE, !.bid = price, !.ask = price]
              ELSE exchange
        x1 == IF size > 0 THEN [x0 EXCEPT !.ask = price] ELSE [x0 EXCEPT !.bid = price]
        x2 == IF IsZero(x1.position.size) THEN x1 ELSE MarkPosition(x1)
        x3 == [x2 EXCEPT !.margin.margin_balance =
                  Add(x2.margin.wallet_balance, x2.position.unrealized_pnl)]
        x4 == [x3 EXCEPT !.margin.position_margin =
                  Add(Div(x3.position.value, x3.position.leverage),
                      x3.position.unrealized_pnl)]
    IN  [x4 EXCEPT !.margin.available_balance =
            Sub(x4.margin.margin_balance, x4.margin.position_margin)]

\* The wallet the claim gives after the orders from index i on were handled:
\* every order that changed the position was a market fill of that amount
\* at the ask (bought) or the bid (sold); it adds the profit of the part of
\* the position it closes and takes the taker fee of the amount.
RECURSIVE ClaimedWalletFrom(_, _, _)
ClaimedWalletFrom(x, i, wallet) ==
    IF i > Len(x.orders_active) THEN wallet
    ELSE LET x1 == HandleFrom([x EXCEPT !.orders_active = SubSeq(@, 1, i)], i)
             x2 == [x1 EXCEPT !.orders_active =
                       @ \o SubSeq(x.orders_active, i + 1, Len(x.orders_active))]
             size == x.position.size
             bought == Gt(x1.position.size, size)
             amount == RAbs(Sub(x1.position.size, size))
             price == IF bought THEN x.ask ELSE x.bid
             closes == IF bought THEN Lt(size, Zero) ELSE Gt(size, Zero)
             closed == IF closes THEN RMin(amount, RAbs(size)) ELSE Zero
             realized ==
                 IF IsZero(closed) THEN Zero
                 ELSE IF bought
                 THEN Mul(closed, Sub(Div(One, price), Div(One, x.position.entry_price)))
                 ELSE Mul(closed, Sub(Div(One, x.position.entry_price), Div(One, price)))
             fee == Div(Mul(x.config.fee_taker, amount), price)
         IN  ClaimedWalletFrom(x2, i + 1,
                               IF IsZero(amount) THEN wallet
                               ELSE Sub(Add(wallet, realized), fee))

\* C38: wallet_balance changes only through executions: it is the starting
\* balance before the first call, every consume_trade that does not
\* liquidate changes it by exactly the realized profit of the orders it
\* executed less their taker fees, and submit_order, cancel_order and
\* set_leverage leave it unchanged.
CE_C38 ==
    /\ [](exret.op = "new" => exchange.margin.wallet_balance = One)
    /\ [][/\ \A p \in TradePrices, size \in {-1, 1} :
                (consume_trade(R(p), size) /\ exret'.result = "false")
                    => exchange'.margin.wallet_balance
                           = ClaimedWalletFrom(QuotedExchange(R(p), size), 1,
                                               exchange.margin.wallet_balance)
          /\ exret'.op \in {"submit_order", "cancel_order", "set_leverage"}
                => exchange'.margin.wallet_balance
                       = exchange.margin.wallet_balance]_vars

----------------------------------------------------------------------------
(* Claims about the triggering of stop orders (Spec)                        *)

\* The market has reached the trigger price of the stop order.
StopReached(o, bid, ask) ==
    IF o.side = "Buy" THEN Ge(ask, o.price) ELSE Le(bid, o.price)

\* The order with the id is among the active orders and not executed.
StillActive(x, id) ==
    \E j \in 1..Len(x.orders_active) :
        x.orders_active[j].id = id /\ ~x.orders_active[j].done

\* C39: an accepted stop-market order is not executed by a later
\* consume_trade unless the market has reached its trigger price (ask >=
\* trigger for a Buy stop, bid <= trigger for a Sell stop): after every
\* consume_trade that leaves the quote on the untriggered side the order is
\* still active.
CE_C39 ==
    [][\A p \in TradePrices, size \in {-1, 1} :
          consume_trade(R(p), size) =>
              \A i \in 1..Len(exchange.orders_active) :
                  LET o == exchange.orders_active[i]
                  IN  (/\ o.order_type = "StopMarket" /\ ~o.done
                       /\ ~StopReached(o, exchange'.bid, exchange'.ask))
                          => StillActive(exchange', o.id)]_vars

=============================================================================
